SPECIFICATION Spec
CONSTANTS
  text = text
  news = news
  gone = gone
  void = void
  blank = blank
  bad = bad
  odd = odd
  note = note
  memo = memo
  Handlers = {h1, h2}
  Messages = {text, news, gone, void, blank, bad, odd, note, memo}
  Encs <- MCEncs
  Plaintext = {news, blank}
  Unavailable = {gone}
  Unparsable = {bad}
  Undecodable <- MCUndecodable
  BadPadding <- MCBadPadding
  UnknownType <- MCUnknownType
  UnknownVersion <- MCUnknownVersion
  RetryLimit = 2
  RetryCapacity = 1
  Configs <- AllConfigs
  Inboxes <- MCInboxes
  NoStanza = NoStanza
  Fallible = {text}
  Beside = {note, memo}
  MaxCrashes = 1
  MaxDrops = 1
INVARIANT TypeOK ReceiptMeansHandled AtMostOnce
PROPERTY AcceptedOnce
SYMMETRY Symmetric
CHECK_DEADLOCK FALSE
