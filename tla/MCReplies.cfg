SPECIFICATION MCSpec
CONSTANTS
  Messages <- MCMessages
  Busy <- MCBusy
  Cuts = {"stub", "head"}
  CHUNK = 2
  FirstPort = 10000
  FILESIZE = 2
  MaxMails = 3
  MaxLines = 3
INVARIANTS
  Transparent
  SmtpInStep
  FtpInStep
  
PROPERTIES
  SmtpReturns
  
CHECK_DEADLOCK FALSE
