--------------------------- MODULE SessionHandover ---------------------------
(***************************************************************************)
(* What the replacement of a session promises, with nothing of records,    *)
(* phases, ticks and panes.  Sessions run and end, and write declarations; *)
(* one of them may stand as an offer to be replaced.  The supervisor takes *)
(* an offer that answers its round, and the offer buys one signal, one     *)
(* launch and one resume line, in this order: the signal reaches nobody    *)
(* but the author, and nothing is launched or handed over while the author *)
(* still runs.                                                             *)
(***************************************************************************)
EXTENDS Naturals

CONSTANTS
    Sessions,     \* numbered in the order they are born
    Serials,      \* of declarations and of rounds, in one order
    Nothing       \* no round, no author

VARIABLES
    latest,    \* the serial given last
    author,    \* who wrote each declaration
    standing,  \* the offer that stands, 0 when none does
    round,     \* the round: when it was opened, and for whom
    born, running,
    deal,      \* the offer the supervisor acts on, 0 when it acts on none
    sent,      \* what was sent on each offer
    struck     \* who was signalled on each offer

vars == <<latest, author, standing, round, born, running, deal, sent, struck>>
people == <<latest, author, standing, round, born, running>>

Init ==
    /\ latest = 0 /\ author = [s \in Serials |-> Nothing] /\ standing = 0
    /\ round = Nothing /\ born = 0 /\ running = {0} /\ deal = 0
    /\ sent = [s \in Serials |-> [signal |-> 0, launch |-> 0, resume |-> 0]]
    /\ struck = {}

\* A running session says something: an offer, or that it makes none.
Declare ==
    /\ latest' = latest + 1 /\ latest' \in Serials
    /\ \E g \in running : author' = [author EXCEPT ![latest + 1] = g]
    /\ standing' \in {0, latest + 1}
    /\ UNCHANGED <<round, born, running, deal, sent, struck>>

Open ==
    /\ round = Nothing /\ latest' = latest + 1 /\ latest' \in Serials
    /\ \E g \in running : round' = [at |-> latest + 1, by |-> g]
    /\ UNCHANGED <<author, standing, born, running, deal, sent, struck>>

\* Rounds end, offers are consumed or lost, and the supervisor gives up a deal.
Close ==
    /\ round' \in {round, Nothing} /\ standing' \in {standing, 0} /\ deal' \in {deal, 0}
    /\ UNCHANGED <<latest, author, born, running, sent, struck>>

\* Sessions end, and do not run again.
End ==
    /\ running' \in SUBSET running
    /\ UNCHANGED <<latest, author, standing, round, born, deal, sent, struck>>

Begins(g) == g \in Sessions /\ born' = g /\ running' = running \cup {g}
HandLaunch ==
    /\ Begins(born + 1)
    /\ UNCHANGED <<latest, author, standing, round, deal, sent, struck>>

\* The offer of the round's own session, made after the round was opened.
Take ==
    /\ deal = 0 /\ standing # 0 /\ round # Nothing
    /\ round.at < standing /\ author[standing] = round.by
    /\ sent[standing] = [signal |-> 0, launch |-> 0, resume |-> 0]
    /\ deal' = standing
    /\ UNCHANGED <<people, sent, struck>>

Signal ==
    /\ deal # 0 /\ sent[deal] = [signal |-> 0, launch |-> 0, resume |-> 0]
    /\ sent' = [sent EXCEPT ![deal].signal = 1]
    /\ struck' = IF author[deal] \in running THEN struck \cup {<<deal, author[deal]>>}
                                              ELSE struck
    /\ UNCHANGED <<people, deal>>

Launch ==
    /\ deal # 0 /\ author[deal] \notin running
    /\ sent[deal].launch = 0 /\ sent[deal].resume = 0
    /\ sent' = [sent EXCEPT ![deal].launch = 1]
    /\ Begins(born + 1) \/ UNCHANGED <<born, running>>
    /\ UNCHANGED <<latest, author, standing, round, deal, struck>>

\* The successor is told to resume; the deal may be done with that.
Resume ==
    /\ deal # 0 /\ author[deal] \notin running /\ sent[deal].resume = 0
    /\ sent' = [sent EXCEPT ![deal].resume = 1]
    /\ deal' \in {deal, 0}
    /\ UNCHANGED <<people, struck>>

Next ==
    Declare \/ Open \/ Close \/ End \/ HandLaunch \/ Take \/ Signal \/ Launch \/ Resume

Spec == Init /\ [][Next]_vars

=============================================================================
