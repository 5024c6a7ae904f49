---------------------------- MODULE SlackClient -----------------------------
(***************************************************************************)
(* slack_api.py as its callers see it: which answers of Slack make a call  *)
(* try again, what the result says of the text that was to be posted, and  *)
(* how a long text is cut.                                                 *)
(***************************************************************************)
EXTENDS Naturals, Sequences, FiniteSets

CONSTANTS
    MaxRetries,     \* SLACK_API_MAX_RETRIES
    MaxLen,         \* SLACK_POST_MAX_LEN
    MaxText         \* length of the longest text looked at (a model bound)

ASSUME ClientAssumption ==
    MaxRetries \in Nat \ {0} /\ MaxLen \in Nat \ {0} /\ MaxText \in Nat

-----------------------------------------------------------------------------
(* Calls *)

\* What one HTTP request comes to: taken; status 429; 500 and above; another error
\* of Slack; no answer at all.
Responses == {"ok", "limited", "server", "refusal", "transport"}

\* A plausible slip: server errors are tried again, whatever is called.
RetriedBlindly(op, response) ==
    response \in {"limited", "server"} \/ (response = "transport" /\ op = "read")

\* _call_slack_api_with_retries: a post that may have arrived is not sent again.
Retried(op, response) ==
    \/ response = "limited"
    \/ response = "server" /\ op # "chat_postMessage"
    \/ response = "transport" /\ op = "read"

\* The class of the last answer, as far as the callers tell them apart.
Classify(op, response) ==
    CASE response = "ok" -> "ok"
      [] op = "chat_postMessage" /\ response \in {"server", "transport"} -> "unknown"
      [] OTHER -> "refused"

\* The ways one call can go: every answer but the last one is tried again; the last
\* one is not, or no try is left.
Tries(op) ==
    {s \in UNION {[1..n -> Responses] : n \in 1..MaxRetries} :
        /\ \A i \in 1..(Len(s) - 1) : Retried(op, s[i])
        /\ Retried(op, s[Len(s)]) => Len(s) = MaxRetries}

\* The requests that took effect: those that were taken, and maybe those of which
\* that is not known.
Effects(s) ==
    {A \in SUBSET DOMAIN s : \A i \in DOMAIN s :
        /\ i \in A => s[i] \in {"ok", "server", "transport"}
        /\ s[i] = "ok" => i \in A}

Calls(op) ==
    UNION {{[verdict |-> Classify(op, s[Len(s)]), times |-> Cardinality(A)] : A \in Effects(s)}
           : s \in Tries(op)}

\* post_to_slack: the parts of a text one after the other, until one fails.  A failure
\* after a part that is in Slack is an unknown delivery.
Posts ==
    Calls("chat_postMessage") \cup
    {[verdict |-> "unknown", times |-> c.times] :
        c \in {c \in Calls("chat_postMessage") : c.verdict = "ok"}}

\* make_add_reaction: a message that has the reaction already counts as taken.
Reactions ==
    {[verdict |-> c.verdict, times |-> 1] : c \in Calls("reactions_add")}

-----------------------------------------------------------------------------
(* Long texts *)

Chars == {"letter", "newline"}

\* A plausible slip: the newline is looked for one character further.
CutFurther(rest) ==
    LET ends == {i \in 2..(MaxLen + 2) : i \in DOMAIN rest /\ rest[i] = "newline"}
    IN  IF ends = {} THEN MaxLen ELSE CHOOSE i \in ends : \A j \in ends : j <= i

\* After the last newline among the first MaxLen + 1 characters, unless there is none
\* but a leading one.
CutAt(rest) ==
    LET ends == {i \in 2..(MaxLen + 1) : i \in DOMAIN rest /\ rest[i] = "newline"}
    IN  IF ends = {} THEN MaxLen ELSE CHOOSE i \in ends : \A j \in ends : j <= i

\* split_slack_post_text
Split[rest \in Seq(Chars)] ==
    IF Len(rest) <= MaxLen THEN IF rest = <<>> THEN <<>> ELSE <<rest>>
    ELSE <<SubSeq(rest, 1, CutAt(rest))>> \o Split[SubSeq(rest, CutAt(rest) + 1, Len(rest))]

Joined[parts \in Seq(Seq(Chars))] ==
    IF parts = <<>> THEN <<>> ELSE Head(parts) \o Joined[Tail(parts)]

SomeTexts == UNION {[1..n -> Chars] : n \in 1..MaxText}

EndsLine(part) == part[Len(part)] = "newline"

\* A text is cut well if it loses nothing, no part is empty, and no part is longer than
\* MaxLen, not counting a newline at its end.
CutsWell ==
    \A text \in SomeTexts :
        /\ Joined[Split[text]] = text
        /\ \A k \in DOMAIN Split[text] :
              LET part == Split[text][k]
              IN  part # <<>> /\ Len(part) <= IF EndsLine(part) THEN MaxLen + 1 ELSE MaxLen

=============================================================================
