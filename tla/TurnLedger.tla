----------------------------- MODULE TurnLedger -----------------------------
(***************************************************************************)
(* What the Telegram turn pipeline promises about messages, without its    *)
(* tables: a chat is held by at most one turn at a time; a turn starts     *)
(* with every message of the chat that is accepted and not yet settled; a  *)
(* new message takes the chat away from the turn that holds it; and only   *)
(* the turn that holds a chat settles messages, exactly those it started   *)
(* with. So no message is settled that no turn has seen, none is settled   *)
(* by a turn that missed a later one, and automation never runs over       *)
(* waiting input.                                                          *)
(***************************************************************************)
EXTENDS Naturals

CONSTANTS
  Chats,    \* conversations
  Updates,  \* messages
  ChatOf,   \* the conversation of a message
  Turns,    \* identities of turns, never used twice
  NoTurn    \* nobody holds the chat

VARIABLES
  accepted,  \* messages taken from Telegram
  settled,   \* messages answered, or given up
  holder,    \* the turn that holds each chat
  seen,      \* what a turn was started with
  begun      \* turns started so far

vars == <<accepted, settled, holder, seen, begun>>

Waiting(c) == {m \in accepted \ settled : ChatOf[m] = c}

Init ==
  /\ accepted = {}
  /\ settled = {}
  /\ holder = [c \in Chats |-> NoTurn]
  /\ seen = [t \in Turns |-> {}]
  /\ begun = {}

Accept(m) ==
  /\ m \notin accepted
  /\ accepted' = accepted \cup {m}
  /\ holder' = [holder EXCEPT ![ChatOf[m]] = NoTurn]
  /\ UNCHANGED <<settled, seen, begun>>

\* A turn over the waiting messages, or over none: an automation turn.
Begin(c, t) ==
  /\ holder[c] = NoTurn
  /\ t \notin begun
  /\ begun' = begun \cup {t}
  /\ holder' = [holder EXCEPT ![c] = t]
  /\ seen' = [seen EXCEPT ![t] = Waiting(c)]
  /\ UNCHANGED <<accepted, settled>>

Settle(c) ==
  /\ holder[c] # NoTurn
  /\ settled' = settled \cup seen[holder[c]]
  /\ holder' = [holder EXCEPT ![c] = NoTurn]
  /\ UNCHANGED <<accepted, seen, begun>>

\* A failure to be retried, or a crash: the messages keep waiting.
Release(cs) ==
  /\ holder' = [c \in Chats |-> IF c \in cs THEN NoTurn ELSE holder[c]]
  /\ UNCHANGED <<accepted, settled, seen, begun>>

Next ==
  \/ \E m \in Updates : Accept(m)
  \/ \E c \in Chats, t \in Turns : Begin(c, t)
  \/ \E c \in Chats : Settle(c)
  \/ \E cs \in SUBSET Chats : Release(cs)

Spec == Init /\ [][Next]_vars

=============================================================================
