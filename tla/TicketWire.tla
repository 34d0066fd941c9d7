----------------------------- MODULE TicketWire -----------------------------
(***************************************************************************)
(* What /v1/payment/ticket-params does to the data it carries: the text of *)
(* the caller's JSON to domain values (handlers.go), those to the protobuf *)
(* message of PayeeDaemon.GetTicketParams and its answer back (grpc.go and *)
(* the generated getters), and the answer to the text of the reply.        *)
(*                                                                         *)
(* Bytes are numbers below 256, hex text is a sequence of digit values     *)
(* (upper and lower case are the same digit, NotHex is any other           *)
(* character), a decimal numeral is its value.  A text has a core and may  *)
(* have blanks around it.                                                  *)
(***************************************************************************)
EXTENDS Integers, Sequences, SequencesExt

CONSTANTS
  AddrLen,     \* bytes of an address: 20 in the code
  Nil          \* the nil message

ASSUME AddrLenPositive == AddrLen \in Nat \ {0}

HexDigit == 0 .. 15
NotHex   == 16
Byte     == 0 .. 255
NoText   == ""       \* the empty string

\* Text of an address, and any other text.
HexText   == [blanks : BOOLEAN, prefix : STRING, raw : Seq(HexDigit \cup {NotHex})]
PlainText == [blanks : BOOLEAN, core : STRING]

-----------------------------------------------------------------------------
(* math/big and encoding/hex, as the code uses them.                       *)

\* Int.Bytes: the absolute value, big-endian, without leading zero bytes.
Bytes[n \in Nat] ==
  IF n = 0 THEN <<>> ELSE Append(Bytes[n \div 256], n % 256)

\* Int.SetBytes.
SetBytes(b) == FoldLeft(LAMBDA acc, d : 256 * acc + d, 0, b)

\* hex.EncodeToString: two digits a byte.
EncodeToString(b) ==
  [i \in 1 .. 2 * Len(b) |->
     IF i % 2 = 1 THEN b[(i + 1) \div 2] \div 16 ELSE b[i \div 2] % 16]

\* hex.DecodeString of text with an even number of digits.
DecodeString(raw) ==
  [i \in 1 .. Len(raw) \div 2 |-> 16 * raw[2 * i - 1] + raw[2 * i]]

-----------------------------------------------------------------------------
(* The request: JSON text to domain values to message.                     *)

TrimSpace(t) == [t EXCEPT !.blanks = FALSE]
IsEmpty(t)   == t.core = NoText /\ ~t.blanks

\* parseHexAddress: 0x or 0X, then exactly twice AddrLen digits, all hex.
IsHexAddress(t) ==
  LET trimmed == TrimSpace(t)
  IN  /\ trimmed.prefix \in {"0x", "0X"}
      /\ Len(trimmed.raw) = 2 * AddrLen
      /\ \A i \in DOMAIN trimmed.raw : trimmed.raw[i] \in HexDigit
parseHexAddress(t) == DecodeString(TrimSpace(t).raw)

\* json.Decoder.Decode with DisallowUnknownFields below the 8 KiB limit, then
\* ensureSingleJSONDocument, which accepts nothing but the end of the body.
Decodes(body) == body.json = "ok"
ensureSingleJSONDocument(body) == body.tail = "EOF"

\* The checks of parseTicketParamsRequest.  A numeral may carry a sign.
ParsesTicketParams(in) ==
  /\ IsHexAddress(in.sender)
  /\ IsHexAddress(in.recipient)
  /\ in.faceValue.decimal /\ in.faceValue.value > 0
  /\ ~IsEmpty(TrimSpace(in.capability))
  /\ ~IsEmpty(TrimSpace(in.offering))

\* A bug parseTicketParamsRequest must not have: the recipient is parsed twice.
parseTicketParamsRequest_RecipientTwice(in) ==
  [sender     |-> parseHexAddress(in.recipient),
   recipient  |-> parseHexAddress(in.recipient),
   faceValue  |-> in.faceValue.value,
   capability |-> TrimSpace(in.capability).core,
   offering   |-> TrimSpace(in.offering).core]

\* What parseTicketParamsRequest returns when they hold.
parseTicketParamsRequest(in) ==
  [sender     |-> parseHexAddress(in.sender),
   recipient  |-> parseHexAddress(in.recipient),
   faceValue  |-> in.faceValue.value,
   capability |-> TrimSpace(in.capability).core,
   offering   |-> TrimSpace(in.offering).core]

\* grpcClient.GetTicketParams: the message it sends.
GetTicketParamsRequest(req) == [req EXCEPT !.faceValue = Bytes[req.faceValue]]

-----------------------------------------------------------------------------
(* The answer: message to domain values to JSON text.                      *)

\* The getters of the generated messages: the zero value on a nil message.
Get(x, field, zero)          == IF x = Nil THEN zero ELSE x[field]
GetCreationRound(x)          == Get(x, "creationRound", 0)
GetCreationRoundBlockHash(x) == Get(x, "creationRoundBlockHash", <<>>)

\* grpcClient.GetTicketParams: the domain value of a ticket_params message.
TicketParams(tp) ==
  [recipient         |-> Get(tp, "recipient", <<>>),
   faceValueWei      |-> Get(tp, "faceValue", <<>>),
   winProb           |-> Get(tp, "winProb", <<>>),
   recipientRandHash |-> Get(tp, "recipientRandHash", <<>>),
   seed              |-> Get(tp, "seed", <<>>),
   expirationBlock   |-> Get(tp, "expirationBlock", <<>>),
   creationRound     |-> GetCreationRound(Get(tp, "expirationParams", Nil)),
   blockHash         |-> GetCreationRoundBlockHash(Get(tp, "expirationParams", Nil))]

\* A bug bytesToDecimalString must not have: only the last byte is read.
bytesToDecimalString_LastByte(b) == IF b = <<>> THEN 0 ELSE b[Len(b)]

bytesToHexString(b)     == [prefix |-> "0x", raw |-> EncodeToString(b)]
bytesToDecimalString(b) == SetBytes(b)

renderTicketParamsJSON(tp) ==
  [recipient         |-> bytesToHexString(tp.recipient),
   faceValue         |-> bytesToDecimalString(tp.faceValueWei),
   winProb           |-> bytesToHexString(tp.winProb),
   recipientRandHash |-> bytesToHexString(tp.recipientRandHash),
   seed              |-> bytesToHexString(tp.seed),
   expirationBlock   |-> bytesToDecimalString(tp.expirationBlock),
   creationRound     |-> tp.creationRound,
   blockHash         |-> bytesToHexString(tp.blockHash)]
=============================================================================
