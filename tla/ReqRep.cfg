CONSTANTS
  Clients = {c1, c2}
  Servers = {s1, s2}
  MaxReq = 2
SPECIFICATION Spec
SYMMETRY ContextSymmetry
INVARIANTS AnsweredOnce ReplyIsRouted
PROPERTY NoRequestLost
