\* Three mails, with every command to the server failing at any time.
SPECIFICATION Spec
CONSTANTS
  ann = ann
  bob = bob
  BOB = BOB
  Addresses <- MCAddresses
  Lower <- MCLower
  Mails <- MCMails
  MaxUid = 3
INVARIANTS
  TypeOK
  NoMailSkipped
  AnswersAreNew
  AnswerIsNewest
PROPERTIES
  MailProcessed
\* A mail that cannot be read ends the process.
CHECK_DEADLOCK FALSE
