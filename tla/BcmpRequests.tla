---------------------------- MODULE BcmpRequests ----------------------------
(***************************************************************************)
(* The requests of one node that wait for their replies                    *)
(* (src/src/lib/bcmp/bcmp.cpp, messages_list): several tasks send          *)
(* requests, the BCMP thread looks for the request of each reply that it   *)
(* receives, and the timer callback thread ends those that took too long.  *)
(*                                                                         *)
(* The tasks number their requests without a lock, and the BCMP thread     *)
(* holds the lock while it looks for a request and again while it removes  *)
(* it, but not in between.                                                 *)
(***************************************************************************)
EXTENDS Naturals, Sequences, RequestLists

CONSTANTS
  Request,   \* calls of bcmp_tx with a request type
  Reply,     \* the replies that may come in
  Timeout,   \* the NULL that a callback gets when its time is over
  SeqSpace   \* sequence numbers, 2^16

ASSUME SeqSpaceAssumption == SeqSpace \in Nat \ {0}
ASSUME TimeoutAssumption == Timeout \notin Reply

VARIABLES
  step,          \* how far the call of each request has got
  message_count, \* the next sequence number
  seq_num,       \* the number of each request, in 16 bits
  messages_list, \* requests waiting, in the order of their calls
  found,         \* the element and the reply in the hands of the BCMP thread
  told,          \* history: what the callback of each request was told
  raced          \* history: a reply met the expiry of its request

vars ==
  <<step, message_count, seq_num, messages_list, found, told, raced>>

Seqs == 0..(SeqSpace - 1)
NoElement == [element |-> "none"]
Element(r, reply, older) == [element |-> r, reply |-> reply, older |-> older]

Created == {r \in Request : step[r] \in {"waiting", "unlisted"}}

Listed == Elements(messages_list)

Tell(r, what) == told' = [told EXCEPT ![r] = Append(@, what)]

(***************************************************************************)
(* The tasks: bcmp_tx                                                      *)
(***************************************************************************)
\* The counter is read, and written back only after other tasks may have
\* read it too.
Number(r) ==
  /\ step[r] = "idle"
  /\ step' = [step EXCEPT ![r] = "numbered"]
  /\ seq_num' = [seq_num EXCEPT ![r] = message_count]
  /\ UNCHANGED <<message_count, messages_list, found, told, raced>>

Count(r) ==
  /\ step[r] = "numbered"
  /\ message_count' = (seq_num[r] + 1) % SeqSpace
  /\ UNCHANGED <<seq_num, found, told, raced>>

\* The request is at the end of the list before its frame is sent.
Send(r) ==
  /\ Count(r)
  /\ step' = [step EXCEPT ![r] = "waiting"]
  /\ messages_list' = Append(messages_list, r)

\* The lock is not to be had in time: the frame is sent nevertheless.
SendUnlisted(r) ==
  /\ Count(r)
  /\ step' = [step EXCEPT ![r] = "unlisted"]
  /\ UNCHANGED messages_list

(***************************************************************************)
(* The BCMP thread: bcmp_process_packet                                    *)
(***************************************************************************)
\* Mutant: the first request in the list, whatever its number.
MatchesFirst(seq, i) == i = 1 /\ i \in DOMAIN messages_list

\* Position of the first request with this number.
Matches(seq, i) ==
  /\ i \in DOMAIN messages_list
  /\ seq_num[messages_list[i]] = seq
  /\ \A j \in 1..(i - 1) : seq_num[messages_list[j]] # seq

Unmatched(seq) == \A r \in Listed : seq_num[r] # seq

\* _message_list_find_message; the lock is given back.
Find(seq, reply) ==
  /\ found = NoElement
  /\ \E i \in DOMAIN messages_list :
       /\ Matches(seq, i)
       /\ found' = Element(messages_list[i], reply, Created)
  /\ UNCHANGED <<step, message_count, seq_num, messages_list, told, raced>>

\* Mutant: the element stays in the list.
TakeKept ==
  /\ found # NoElement
  /\ found.element \in Listed
  /\ Tell(found.element, found.reply)
  /\ found' = NoElement
  /\ UNCHANGED <<step, message_count, seq_num, messages_list, raced>>

\* The element is still in the list: its callback gets the reply.
Take ==
  /\ found # NoElement
  /\ found.element \in Listed
  /\ Tell(found.element, found.reply)
  /\ messages_list' = Without(messages_list, found.element)
  /\ found' = NoElement
  /\ UNCHANGED <<step, message_count, seq_num, raced>>

\* The element was freed meanwhile.  Its memory holds what it held, so that
\* its callback runs once more, or a request that was created since.
TakeFreed ==
  /\ found # NoElement
  /\ found.element \notin Listed
  /\ \/ /\ Tell(found.element, found.reply)
        /\ UNCHANGED messages_list
     \/ \E r \in Created \ found.older :
          /\ Tell(r, found.reply)
          /\ \/ r \in Listed /\ messages_list' = Without(messages_list, r)
             \/ r \notin Listed /\ UNCHANGED messages_list
  /\ found' = NoElement
  /\ raced' = TRUE
  /\ UNCHANGED <<step, message_count, seq_num>>

\* The lock is not to be had in time: the reply is nobody's.
TakeBusy ==
  /\ found # NoElement
  /\ found' = NoElement
  /\ UNCHANGED <<step, message_count, seq_num, messages_list, told, raced>>

(***************************************************************************)
(* The timer callback thread: _message_list_timer_expiry_cb                *)
(***************************************************************************)
\* Mutant: the callback is not called.
ExpireInSilence(r) ==
  /\ r \in Listed
  /\ messages_list' = Without(messages_list, r)
  /\ UNCHANGED <<step, message_count, seq_num, found, told, raced>>

\* Mutant: the callback runs after the lock is given back, and the element
\* is removed by the next pass.
ExpireTwice(r) ==
  /\ r \in Listed
  /\ Tell(r, Timeout)
  /\ \/ told[r] = <<>> /\ UNCHANGED messages_list
     \/ told[r] # <<>> /\ messages_list' = Without(messages_list, r)
  /\ UNCHANGED <<step, message_count, seq_num, found, raced>>

Expire(r) ==
  /\ r \in Listed
  /\ Tell(r, Timeout)
  /\ messages_list' = Without(messages_list, r)
  /\ UNCHANGED <<step, message_count, seq_num, found, raced>>

Init ==
  /\ step = [r \in Request |-> "idle"]
  /\ message_count = 0
  /\ seq_num = [r \in Request |-> 0]
  /\ messages_list = <<>>
  /\ found = NoElement
  /\ told = [r \in Request |-> <<>>]
  /\ raced = FALSE

Tx == \E r \in Request : Number(r) \/ Send(r) \/ SendUnlisted(r)
Removal == Take \/ TakeFreed \/ TakeBusy
Expiry == \E r \in Request : Expire(r)

\* The replies that come in are left open.
Next ==
  \/ Tx
  \/ \E seq \in Seqs, reply \in Reply : Find(seq, reply)
  \/ Removal
  \/ Expiry

Spec == Init /\ [][Next]_vars

(***************************************************************************)
(* Properties                                                              *)
(***************************************************************************)
TypeOK ==
  /\ step \in [Request -> {"idle", "numbered", "waiting", "unlisted"}]
  /\ message_count \in Seqs
  /\ seq_num \in [Request -> Seqs]
  /\ messages_list \in Seq(Request)
  /\ found \in {NoElement}
       \cup [element : Request, reply : Reply, older : SUBSET Request]
  /\ told \in [Request -> Seq(Reply \cup {Timeout})]
  /\ raced \in BOOLEAN

\* The callback of a request that waits in the list has been told nothing:
\* whichever thread ends a request takes it from the list as well, once.
ListedUntold ==
  /\ \A r \in Listed : step[r] = "waiting" /\ told[r] = <<>>
  /\ NoRepetition(messages_list)

\* A request that was listed and is not listed any more was told something:
\* no reply and no expiry, in whichever order they come, drops a request in
\* silence.
NoSilentEnd ==
  \A r \in Request : step[r] = "waiting" /\ r \notin Listed => told[r] # <<>>

\* A callback is told of a timeout at most once, and of a reply at most once;
\* both only in that order, when the reply met the expiry.
OutcomeOrder ==
  \A r \in Request :
    \/ Len(told[r]) <= 1
    \/ raced /\ Len(told[r]) = 2 /\ told[r][1] = Timeout /\ told[r][2] # Timeout
=============================================================================
