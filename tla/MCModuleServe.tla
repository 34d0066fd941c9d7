---------------------------- MODULE MCModuleServe ----------------------------
(***************************************************************************)
(* Small instances of ModuleServe for TLC: 8-bit words, ten pixels a unit. *)
(***************************************************************************)
EXTENDS ModuleServe

MCDefaultSize == <<2, 3>>

Optional == {Absent, -1, 1, 4}
Sizes == {Absent, <<0, 0>>, <<3, 4>>, <<5, 5>>}

\* A backend may report a negative usage.
MCUsages == {-3, 11, 25}

\* Successes, and client and server errors, among them the two statuses that
\* Serve itself writes.
MCStatuses == {200, 400, 404, 502, 503}

\* Content as a string, as parts with and without a text, and as null; the last
\* prompt does not fit a word together with its completion.
Msg(content) == [role |-> 1, content |-> content]
Str(k) == [kind |-> "string", tokens |-> k]
Parts == [kind |-> "parts", parts |-> <<[text |-> 3, json |-> 6], [text |-> Absent, json |-> 5]>>]
Messages == {<< >>, <<Msg(Str(3)), Msg(Parts)>>, <<Msg(Parts), Msg([kind |-> "null", tokens |-> 1])>>,
             <<Msg(Str(100)), Msg(Str(27))>>}

ChatRequests ==
  {[cap |-> "chat", json |-> TRUE, model |-> "m", messages |-> ms, max_tokens |-> t,
    stream |-> s] :
     ms \in Messages, t \in Optional, s \in BOOLEAN}

EmbeddingRequests ==
  {[cap |-> "embeddings", json |-> TRUE, model |-> "m", input |-> i] :
     i \in {[kind |-> "string", tokens |-> 3], [kind |-> "list", items |-> <<2, Absent, Absent>>],
            [kind |-> "other"]}}

ImageRequests ==
  {[cap |-> "images", json |-> TRUE, model |-> "m", n |-> n, steps |-> k, size |-> s] :
     n \in Optional, k \in Optional, s \in Sizes}

Form(cap, form, parts) ==
  [cap |-> cap, form |-> form, first |-> "boundary", parts |-> parts, broken |-> FALSE]

\* A repeated field: the first one counts.  The body may break off at its end.
EditRequests ==
  {[Form("edits", f, <<<<"model", "m">>, <<"n", n>>, <<"size", s>>, <<"n", 1>>>>)
      EXCEPT !.broken = b] :
     f \in BOOLEAN, n \in Optional, s \in Sizes, b \in BOOLEAN}

\* Bodies that ExtractModel refuses.
Unreadable ==
  {[cap |-> c, json |-> j, model |-> ""] : c \in {"chat", "embeddings", "images", "speech"}, j \in BOOLEAN}
  \cup {[Form(c, TRUE, << >>) EXCEPT !.first = f, !.broken = b] :
           c \in {"edits", "transcriptions"}, b \in BOOLEAN,
           f \in {"boundary", "too short", "no terminator", "no dashes", "empty"}}
  \cup {Form("transcriptions", TRUE, <<<<"model", "">>>>)}

MCRequests ==
  ChatRequests \cup EmbeddingRequests \cup ImageRequests \cup EditRequests \cup Unreadable
    \cup {[cap |-> "speech", json |-> TRUE, model |-> "m", runes |-> k] : k \in {0, 5}}
    \cup {Form("transcriptions", f, <<<<"model", "m">>>>) : f \in BOOLEAN}
=============================================================================
