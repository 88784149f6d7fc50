----------------------------- MODULE ErrorClass -----------------------------
(***************************************************************************)
(* internal/runner/errclass.go: the label under which a failed request is  *)
(* counted, and the shortening of text that is shown or used as a key.     *)
(*                                                                         *)
(* An error is what its chain of wrapped errors answers to errors.Is and   *)
(* errors.As: the set of kinds it is, the code of a typed one, and its     *)
(* text.  Text is a sequence of runes of which only the kind matters: a    *)
(* "letter", a "wide" one of several bytes, a "digit", a "space", and      *)
(* "mark" for the separator that ends the URL url.Error puts in front.     *)
(***************************************************************************)
EXTENDS Integers, Sequences, SequencesExt

CONSTANT SummaryLimit   \* summaryLimit, 70 in the code

ASSUME LimitAssumption == SummaryLimit \in Nat

Runes == {"letter", "wide", "digit", "space", "mark"}

Ellipsis == <<".", ".", ".">>

TruncateBeyond(s, limit) ==   \* mutant: the ellipsis is added to a full prefix
  IF Len(s) <= limit THEN s ELSE SubSeq(s, 1, limit) \o Ellipsis

(* The comparison in bytes only saves work: a text has no more runes than bytes. *)
TruncateRunes(s, limit) ==
  IF limit <= 0 THEN <<>>
  ELSE IF Len(s) <= limit THEN s
  ELSE IF limit <= 3 THEN SubSeq(s, 1, limit)
  ELSE SubSeq(s, 1, limit - 3) \o Ellipsis

(* Every run of rune becomes one as. *)
Squeeze(s, rune, as) ==
  LET upTo[n \in 0..Len(s)] ==
        IF n = 0 THEN <<>>
        ELSE IF s[n] # rune THEN Append(upTo[n - 1], s[n])
        ELSE IF n > 1 /\ s[n - 1] = rune THEN upTo[n - 1]
        ELSE Append(upTo[n - 1], as)
  IN  upTo[Len(s)]

DropUrl(s) == SubSeq(s, SelectLastInSeq(s, LAMBDA r : r = "mark") + 1, Len(s))

Fields(s) ==
  LET t == Squeeze(s, "space", "space")
      from == IF t # <<>> /\ Head(t) = "space" THEN 2 ELSE 1
      to == IF t # <<>> /\ Last(t) = "space" THEN Len(t) - 1 ELSE Len(t)
  IN  SubSeq(t, from, to)

summarizeCutFirst(msg) ==   \* mutant: truncated before the digits are collapsed
  Squeeze(TruncateRunes(Fields(DropUrl(msg)), SummaryLimit), "digit", "N")

summarize(msg) ==
  TruncateRunes(Squeeze(Fields(DropUrl(msg)), "digit", "N"), SummaryLimit)

(* The types of httperr: what the server answered. *)
AnswerTypes == {"StatusError", "CypherError"}

(* The tests of classify on untyped errors, in their order. *)
Tests == <<
  <<{"context.DeadlineExceeded", "os.ErrDeadlineExceeded"}, "timeout">>,
  <<{"context.Canceled"}, "canceled">>,
  <<{"DNSError"}, "dns">>,
  <<{"CertificateVerificationError"}, "tls-verify">>,
  <<{"RecordHeaderError"}, "tls-handshake">>,
  <<{"ECONNREFUSED"}, "conn-refused">>,
  <<{"ECONNRESET"}, "conn-reset">>,
  <<{"ECONNABORTED"}, "conn-aborted">>,
  <<{"EPIPE"}, "broken-pipe">>,
  <<{"ETIMEDOUT"}, "conn-timeout">>,
  <<{"EMFILE", "ENFILE"}, "fd-exhausted">>,
  <<{"EADDRNOTAVAIL"}, "ports-exhausted">>,
  <<{"io.ErrUnexpectedEOF", "io.EOF"}, "eof">>,
  <<{"net.Error.Timeout"}, "timeout">> >>

Kinds == AnswerTypes \cup UNION {Tests[i][1] : i \in DOMAIN Tests}

(* A label: "cypher: " followed by an empty code is written "cypher". *)
classify(err) ==
  LET test == SelectInSeq(Tests, LAMBDA t : t[1] \cap err.is # {})
  IN  IF "StatusError" \in err.is THEN <<"http", err.code>>
      ELSE IF "CypherError" \in err.is THEN <<"cypher", err.code>>
      ELSE IF test # 0 THEN <<Tests[test][2], 0>>
      ELSE <<"other", summarize(err.msg)>>

=============================================================================
