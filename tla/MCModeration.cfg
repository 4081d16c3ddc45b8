SPECIFICATION ModerationSpec
CONSTANTS
  u1 = u1
  u2 = u2
  text = text
  photo = photo
  video = video
  Users <- MCUsers
  Messages <- MCMessages
  Media <- MCMedia
  Author <- MCAuthor
  QueueMax = 1
  TextMute = 1
  MediaMute = 1
  Admins = {1, 2}
  MaxOps = 2
  MaxFaults = 1
  Chats = {1, 2}
  Desk = 1
  LogLines = 2
  LogBackups = 2
  BufferLines = 2
  PageSize = 2
  MaxRecords = 7
  MaxCuts = 1
  Sections = {"moderation", "log"}
INVARIANT ListMatchesTelegram
INVARIANT RuntimeMatchesStored
PROPERTY ReadingBackMissesNothing
