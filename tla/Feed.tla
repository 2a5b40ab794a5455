-------------------------------- MODULE Feed --------------------------------
(***************************************************************************)
(* One-to-many event delivery (event/feed.go), over which the chain, the   *)
(* pool and the miner tell each other what happened.  Senders, subscribers *)
(* and their readers are goroutines of their own.  A Send first tries      *)
(* every channel, then waits in a select for one of them or for an         *)
(* Unsubscribe; subscriptions are added to the select cases by the next    *)
(* Send.  Several subscriptions may share a channel.                       *)
(*                                                                         *)
(* Every channel has a buffer; values have the type the feed is used with. *)
(***************************************************************************)
EXTENDS Integers, Sequences, SequencesExt, FiniteSets, FiniteSetsExt

CONSTANTS
    Sub,        \* subscriptions, each made and cancelled at most once
    Chan,       \* the channel of each subscription
    Value,      \* values, each sent at most once, by a goroutine of its own
    Capacity    \* buffer of each channel, at least 1

Channels == {Chan[s] : s \in Sub}

VARIABLES
    sub,        \* "new", "on", "removing" (in remove's select) or "off"
    inbox,      \* channels of the subscriptions no Send has seen yet
    sendCases,  \* channels of the others
    active,     \* len(cases): the first so many cases still wait for the value
    stage,      \* of the goroutine that holds sendLock; "free" if none does
    value, i,   \* its argument and its loop variable
    nsent,      \* its result
    left,       \* values not sent yet
    got,        \* what was put into each channel
    read,       \* how many of them its reader took
    must, may   \* history: subscriptions the value must and may be delivered to

subscribers == <<sub, inbox>>
sender == <<active, stage, value, i, nsent, left>>
channels == <<got, read>>
vars == <<subscribers, sendCases, sender, channels, must, may>>

Init ==
    /\ sub = [s \in Sub |-> "new"] /\ inbox = <<>> /\ sendCases = <<>>
    /\ active = 0 /\ stage = "free" /\ value = {} /\ i = 1 /\ nsent = 0 /\ left = Value
    /\ got = [c \in Channels |-> <<>>] /\ read = [c \in Channels |-> 0]
    /\ must = {} /\ may = {}

find(cs, c) == SelectInSeq(cs, LAMBDA x : x = c)
delete(cs, c) == RemoveAt(cs, find(cs, c))

room(c) == Len(got[c]) - read[c] < Capacity

On == {s \in Sub : sub[s] = "on"}

-----------------------------------------------------------------------------
(* Subscribers. *)

Subscribe(s) ==
    /\ sub[s] = "new"
    /\ sub' = [sub EXCEPT ![s] = "on"]
    /\ inbox' = Append(inbox, Chan[s])
    /\ UNCHANGED <<sendCases, sender, channels, must, may>>

\* Unsubscribe calls remove, here up to its select: a channel in the inbox is deleted from it, be it
\* that of another subscription of the same channel.
Unsubscribe(s) ==
    /\ sub[s] = "on"
    /\ IF find(inbox, Chan[s]) # 0
       THEN sub' = [sub EXCEPT ![s] = "off"] /\ inbox' = delete(inbox, Chan[s])
       ELSE sub' = [sub EXCEPT ![s] = "removing"] /\ UNCHANGED inbox
    /\ must' = must \ {s}
    /\ UNCHANGED <<sendCases, sender, channels, may>>

\* No Send is in progress.
RemoveLocked(s) ==
    /\ sub[s] = "removing" /\ stage = "free"
    /\ sub' = [sub EXCEPT ![s] = "off"]
    /\ sendCases' = delete(sendCases, Chan[s])
    /\ UNCHANGED <<inbox, sender, channels, must, may>>

Receive(c) ==
    /\ read[c] < Len(got[c])
    /\ read' = [read EXCEPT ![c] = @ + 1]
    /\ UNCHANGED <<subscribers, sendCases, sender, got, must, may>>

-----------------------------------------------------------------------------
(* Send. *)

Send(v) ==
    /\ stage = "free" /\ v \in left
    /\ stage' = "locked" /\ value' = v /\ left' = left \ {v}
    /\ UNCHANGED <<subscribers, sendCases, active, i, nsent, channels, must, may>>

\* Under mu the inbox is emptied into the select cases.
TakeInbox ==
    /\ stage = "locked"
    /\ sendCases' = sendCases \o inbox /\ inbox' = <<>>
    /\ active' = Len(sendCases') /\ stage' = "try" /\ i' = 1 /\ nsent' = 0
    /\ must' = On /\ may' = {s \in Sub : sub[s] \in {"on", "removing"}}
    /\ UNCHANGED <<sub, value, left, channels>>

deactivate(k) ==
    /\ sendCases' = [sendCases EXCEPT ![k] = sendCases[active], ![active] = sendCases[k]]
    /\ active' = active - 1

deliver(k) ==
    /\ got' = [got EXCEPT ![sendCases[k]] = Append(@, value)]
    /\ nsent' = nsent + 1
    /\ deactivate(k)

\* Slip: the loop goes on behind a case that was moved to its place, and returns
\* when it has seen every place.
TrySendOnce ==
    /\ stage = "try" /\ i <= active
    /\ IF room(sendCases[i]) THEN deliver(i)
       ELSE UNCHANGED <<sendCases, active, got, nsent>>
    /\ i' = i + 1
    /\ stage' = IF i' > active' THEN "free" ELSE stage
    /\ UNCHANGED <<subscribers, value, left, read, must, may>>

\* The fast path: deactivating a case puts another in its place.
TrySend ==
    /\ stage = "try" /\ i <= active
    /\ IF room(sendCases[i]) THEN deliver(i) /\ UNCHANGED i
       ELSE i' = i + 1 /\ UNCHANGED <<sendCases, active, got, nsent>>
    /\ UNCHANGED <<subscribers, stage, value, left, read, must, may>>

EndOfTry ==
    /\ stage = "try" /\ i > active
    /\ stage' = IF active = 0 THEN "free" ELSE "select"
    /\ UNCHANGED <<subscribers, sendCases, active, value, i, nsent, left, channels, must, may>>

\* A channel has room ...
SelectSend(k) ==
    /\ stage = "select" /\ k <= active /\ room(sendCases[k])
    /\ deliver(k)
    /\ stage' = "try" /\ i' = 1
    /\ UNCHANGED <<subscribers, value, left, read, must, may>>

\* Slip: the select waits for the channels only.
SelectRemoveNever(s) == FALSE /\ UNCHANGED vars

\* ... or a subscription is removed: its case may or may not wait for the value.
SelectRemove(s) ==
    /\ stage = "select" /\ sub[s] = "removing"
    /\ sub' = [sub EXCEPT ![s] = "off"]
    /\ sendCases' = delete(sendCases, Chan[s])
    /\ active' = IF find(sendCases, Chan[s]) <= active THEN active - 1 ELSE active
    /\ stage' = "try" /\ i' = 1
    /\ UNCHANGED <<inbox, value, nsent, left, channels, must, may>>

\* What goes on in a Send that has the lock, and in an Unsubscribe.
SendStep ==
    \/ TakeInbox \/ TrySend \/ EndOfTry
    \/ \E k \in 1 .. Cardinality(Sub) : SelectSend(k)

RemoveStep(s) == RemoveLocked(s) \/ SelectRemove(s)

Next ==
    \/ \E s \in Sub : Subscribe(s) \/ Unsubscribe(s) \/ RemoveStep(s)
    \/ \E c \in Channels : Receive(c)
    \/ \E v \in Value : Send(v)
    \/ SendStep

\* The goroutine in Send goes on; the channels sendLock and removeSub serve the
\* goroutines that wait for them in turn; a subscriber reads until it
\* unsubscribes, and perhaps no longer.
Fairness ==
    /\ WF_vars(SendStep)
    /\ \A s \in Sub : WF_vars(RemoveStep(s))
    /\ \A s \in Sub : WF_vars(s \in On /\ Receive(Chan[s]))

Spec == Init /\ [][Next]_vars
FairSpec == Spec /\ Fairness

-----------------------------------------------------------------------------
Count(q, x) == Cardinality({k \in DOMAIN q : q[k] = x})
Using(c, states) == {s \in Sub : Chan[s] = c /\ sub[s] \in states}

\* Cases wait only while a Send is in progress.
TypeOK ==
    /\ sub \in [Sub -> {"new", "on", "removing", "off"}]
    /\ inbox \in Seq(Channels) /\ sendCases \in Seq(Channels)
    /\ active \in 0 .. Len(sendCases) /\ i \in 1 .. Len(sendCases) + 1
    /\ stage \in {"free", "locked", "try", "select"}
    /\ stage \in {"free", "locked"} => active = 0
    /\ \A c \in Channels : Len(got[c]) - read[c] \in 0 .. Capacity

(* caseList.delete is never called with the index -1: the cases and the inbox
   have an entry for every subscription that is not cancelled, and the cases one
   for every Unsubscribe that waits. *)
CasesExact ==
    \A c \in Channels :
        /\ Count(inbox, c) + Count(sendCases, c) = Cardinality(Using(c, {"on", "removing"}))
        /\ Count(sendCases, c) >= Cardinality(Using(c, {"removing"}))

(* "Send delivers to all subscribed channels. It returns the number of
   subscribers that the value was sent to": when it returns, every subscription
   that was there when it took the inbox and was not being cancelled got the
   value exactly once, whatever was removed meanwhile. *)
DeliversOnceStep ==
    stage # "free" /\ stage' = "free" =>
        /\ \A c \in Channels :
              /\ Count(got[c], value) >= Cardinality({s \in must : Chan[s] = c})
              /\ Count(got[c], value) <= Cardinality({s \in may : Chan[s] = c})
        /\ nsent' = FoldSet(LAMBDA c, n : n + Count(got[c], value), 0, Channels)
DeliversOnce == [][DeliversOnceStep]_vars

(* A channel all of whose subscriptions are cancelled, or not made yet, gets
   nothing: its reader may close it. *)
SilentWhenOffStep ==
    \A c \in Channels : Using(c, {"on", "removing"}) = {} => got'[c] = got[c]
SilentWhenOff == [][SilentWhenOffStep]_vars

Waits(s) == sub[s] = "removing"
Sending == stage # "free"

(* Unsubscribe returns although nobody reads the channel any more, and Send
   returns although a subscriber left. *)
UnsubscribeReturns == \A s \in Sub : Waits(s) ~> ~Waits(s)
SendReturns == Sending ~> ~Sending
=============================================================================
