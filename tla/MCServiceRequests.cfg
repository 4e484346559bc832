SPECIFICATION Spec
CONSTANTS
  r1 = r1  q1 = q1  q2 = q2  stu = stu  adm = adm  adm2 = adm2  b1 = b1  b2 = b2
  Requests = {r1}
  Quotes = {q1, q2}
  Students = {stu}
  Admins = {adm}
  Owner <- OneStudent
  Briefs = {b1, b2}
  Amounts = {10}
  MaxVersion = 6
  NoRequest = NoRequest
  NoQuote = NoQuote
  NoOne = NoOne
  Unread = Unread
INVARIANTS HistoryExplainsRows AcceptedQuoteBilledOnce BilledByOwner OneOpenOffer
PROPERTIES ClosedIsFinal NoBlindWrite
SYMMETRY Symmetry
