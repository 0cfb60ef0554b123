SPECIFICATION ViewSpec
CONSTANTS
  s1 = s1
  s2 = s2
  c1 = c1
  out = out
  in = in
  Sessions = {s1, s2}
  Chats = {c1}
  SessionOf <- TheSessionOf
  Messages = {out, in}
  ChatOf <- TheChatOf
  Own = {out}
  Absent = Absent
  NoChat = NoChat
  NoMessage = NoMessage
  MaxRequests = 2
INVARIANTS ThreadsConsistent KeepsUp
PROPERTIES TicksAdvance
