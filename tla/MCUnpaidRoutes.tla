--------------------------- MODULE MCUnpaidRoutes ---------------------------
(* A small instance of UnpaidRoutes: one-byte addresses, face values of two *)
(* and three bytes, and every way a body is turned down.                    *)
EXTENDS UnpaidRoutes

CONSTANT First   \* the request that tries every body

Text(s)      == [blanks |-> FALSE, core |-> s]
Blank(t)     == [t EXCEPT !.blanks = TRUE]
Addr(raw)    == [blanks |-> FALSE, prefix |-> "0x", raw |-> raw]
Numeral(n)   == [decimal |-> TRUE, value |-> n]
NotDecimal   == [decimal |-> FALSE, value |-> 0]

Good == [sender |-> Addr(<<10, 1>>), recipient |-> Addr(<<0, 15>>), faceValue |-> Numeral(256),
         capability |-> Text("chat"), offering |-> Text("m")]
Other == [Good EXCEPT !.sender = Blank([@ EXCEPT !.prefix = "0X"]), !.faceValue = Numeral(65537),
                      !.capability = Blank(@)]

BadInputs ==
  {[Good EXCEPT !.sender.prefix = ""],
   [Good EXCEPT !.recipient.raw = <<1>>],
   [Good EXCEPT !.sender.raw = <<1, NotHex>>],
   [Good EXCEPT !.faceValue = NotDecimal],
   [Good EXCEPT !.faceValue = Numeral(0)],
   [Good EXCEPT !.faceValue = Numeral(-1)],
   [Good EXCEPT !.offering = Blank(Text(""))]}

AllBodies ==
  {[json |-> "ok", tail |-> "EOF", in |-> i] : i \in {Good, Other} \cup BadInputs}
  \cup {[json |-> j, tail |-> "EOF", in |-> Good] : j \in {"malformed", "unknown field", "too large"}}
  \cup {[json |-> "ok", tail |-> t, in |-> Good] : t \in {"object", "garbage"}}

\* One request tries every body, the others the one that differs from Good.
MCBodies(r) ==
  IF r = First THEN AllBodies ELSE {[json |-> "ok", tail |-> "EOF", in |-> Other]}

\* The daemon issues for the recipient and face value it was asked for; it may
\* pad numbers to a fixed width and leave the expiration message out, here one
\* of the two for either length of the face value.
Ticket(m, pad, params) ==
  [recipient |-> m.recipient, faceValue |-> pad \o m.faceValue, winProb |-> <<255, 0>>,
   recipientRandHash |-> <<7>>, seed |-> <<16>>, expirationBlock |-> pad \o <<1, 2>>,
   expirationParams |-> params]

MCIssues(m) ==
  {IF Len(m.faceValue) = 2
     THEN Ticket(m, << >>, Nil)
     ELSE Ticket(m, <<0>>, [creationRound |-> 3, creationRoundBlockHash |-> <<9, 240>>])}

MCTokens  == {"", "Bearer t"}
MCHeaders == {"", "Bearer t", "Bearer x"}
=============================================================================
