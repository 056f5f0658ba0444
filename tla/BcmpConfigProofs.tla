-------------------------- MODULE BcmpConfigProofs --------------------------
(***************************************************************************)
(* Proofs about the list of requests (BcmpRequests), and about the         *)
(* configuration over the bus that uses it (BcmpConfig): whatever the      *)
(* order in which the tasks, the BCMP thread and the expiry take their     *)
(* steps, a request leaves the list once, and its callback is told; the    *)
(* replies it gets are its own, and say what the server did.               *)
(***************************************************************************)
EXTENDS BcmpConfig

(***************************************************************************)
(* Types                                                                   *)
(***************************************************************************)
\* One more word to the callback of r.
LEMMA TellTypes ==
  ASSUME TypeOK, NEW r \in Request, NEW x \in Reply \cup {Timeout}, Tell(r, x)
  PROVE  /\ told' \in [Request -> Seq(Reply \cup {Timeout})]
         /\ told'[r] = Append(told[r], x)
         /\ \A q \in Request : q # r => told'[q] = told[q]
BY DEF TypeOK, Tell

\* Types, and a list in which no request occurs twice.
TypeInv == TypeOK /\ NoRepetition(messages_list)

\* A request leaves the list.
LEMMA Leaves ==
  ASSUME TypeInv, NEW r \in Listed, messages_list' = Without(messages_list, r)
  PROVE  /\ messages_list' \in Seq(Request)
         /\ NoRepetition(messages_list')
         /\ Listed' = Listed \ {r}
<1>1. messages_list \in Seq(Request) /\ NoRepetition(messages_list)
  BY DEF TypeInv, TypeOK
<1>2. r \in Elements(messages_list)
  BY DEF Listed
<1>3. /\ messages_list' \in Seq(Request)
      /\ NoRepetition(messages_list')
      /\ Elements(messages_list') = Elements(messages_list) \ {r}
  BY <1>1, <1>2, WithoutOne
<1> QED
  BY <1>3 DEF Listed

\* A request enters the list.
LEMMA Enters ==
  ASSUME TypeInv, NEW r \in Request, r \notin Listed,
         messages_list' = Append(messages_list, r)
  PROVE  /\ messages_list' \in Seq(Request)
         /\ NoRepetition(messages_list')
         /\ Listed' = Listed \cup {r}
<1>1. messages_list \in Seq(Request) /\ NoRepetition(messages_list)
  BY DEF TypeInv, TypeOK
<1>2. r \notin Elements(messages_list)
  BY DEF Listed
<1>3. /\ messages_list' \in Seq(Request)
      /\ NoRepetition(messages_list')
      /\ Elements(messages_list') = Elements(messages_list) \cup {r}
  BY <1>1, <1>2, AppendNew
<1> QED
  BY <1>3 DEF Listed

\* Every request in the list is one, and there are none at first.
LEMMA ListedTypes == TypeOK => Listed \subseteq Request
BY DEF TypeOK, Listed, Elements

(***************************************************************************)
(* The fate of a request                                                   *)
(***************************************************************************)
\* What the callback of a request has been told.
Words(r) ==
  \/ told[r] = <<>>
  \/ told[r] = <<Timeout>>
  \/ \E x \in Reply : told[r] = <<x>>
  \/ raced /\ \E x \in Reply : told[r] = <<Timeout, x>>

Fate(r) ==
  /\ Words(r)
  /\ r \notin Created => told[r] = <<>> /\ r \notin Listed
  /\ r \in Listed => step[r] = "waiting" /\ told[r] = <<>>
  /\ step[r] = "waiting" /\ r \notin Listed => told[r] # <<>>

\* The element in the hands of the BCMP thread is in the list or has just
\* timed out, and what was created since it was found got no reply yet.
InHand ==
  found # NoElement =>
    /\ found.element \in Created \cap found.older
    /\ found.element \notin Listed => told[found.element] = <<Timeout>>
    /\ \A r \in Created \ found.older : told[r] \in {<<>>, <<Timeout>>}

IInv == TypeInv /\ (\A r \in Request : Fate(r)) /\ InHand

\* The invariant holds at first.
LEMMA InitInv == Init => IInv
<1> SUFFICES ASSUME Init PROVE IInv
  OBVIOUS
<1>1. 0 \in Seqs
  BY SeqSpaceAssumption DEF Seqs
<1>2. TypeInv
  <2>1. told \in [Request -> Seq(Reply \cup {Timeout})]
    BY DEF Init
  <2>2. messages_list \in Seq(Request) /\ NoRepetition(messages_list)
    BY DEF Init, NoRepetition
  <2> QED
    BY <1>1, <2>1, <2>2 DEF Init, TypeInv, TypeOK
<1>3. Listed = {}
  BY DEF Init, Listed, Elements
<1>4. ASSUME NEW r \in Request PROVE Fate(r)
  <2>1. step[r] = "idle" /\ told[r] = <<>>
    BY DEF Init
  <2> QED
    BY <2>1, <1>3 DEF Fate, Words, Created
<1>5. InHand
  BY DEF Init, InHand
<1> QED
  BY <1>2, <1>4, <1>5 DEF IInv

(***************************************************************************)
(* The steps                                                               *)
(***************************************************************************)
\* A request whose step and words stay, and that stays in or out of the list,
\* keeps its fate.
LEMMA FateKept ==
  ASSUME NEW r \in Request, Fate(r), step'[r] = step[r], told'[r] = told[r],
         r \in Listed' <=> r \in Listed, raced => raced'
  PROVE  Fate(r)'
BY DEF Fate, Words, Created

\* A task reads the counter.
LEMMA NumberStep ==
  ASSUME IInv, NEW r \in Request, Number(r)
  PROVE  IInv'
<1>1. /\ step' = [step EXCEPT ![r] = "numbered"] /\ step[r] = "idle"
      /\ seq_num' = [seq_num EXCEPT ![r] = message_count]
      /\ UNCHANGED <<message_count, messages_list, found, told, raced>>
  BY DEF Number
<1>2. TypeInv'
  BY <1>1 DEF IInv, TypeInv, TypeOK, NoRepetition
<1>3. Listed' = Listed
  BY <1>1 DEF Listed
<1>4. Created' = Created
  BY <1>1 DEF IInv, TypeInv, TypeOK, Created
<1>5. ASSUME NEW q \in Request PROVE Fate(q)'
  <2>1. CASE q = r
    BY <1>1, <1>3, <1>4, <2>1 DEF IInv, TypeInv, TypeOK, Fate, Words, Created
  <2>2. CASE q # r
    <3>1. step'[q] = step[q]
      BY <1>1, <2>2 DEF IInv, TypeInv, TypeOK
    <3> QED
      BY <3>1, <1>1, <1>3, FateKept DEF IInv
  <2> QED
    BY <2>1, <2>2
<1>6. InHand'
  BY <1>1, <1>3, <1>4 DEF IInv, InHand
<1> QED
  BY <1>2, <1>5, <1>6 DEF IInv

\* The counter keeps its width.
LEMMA CountTypes ==
  ASSUME TypeOK, NEW r \in Request, Count(r)
  PROVE  message_count' \in Seqs
<1>1. seq_num[r] \in Nat
  BY SeqSpaceAssumption DEF TypeOK, Seqs
<1> QED
  BY <1>1, SeqSpaceAssumption DEF Count, Seqs

\* What is in hand stays what it is when a request is created.
LEMMA InHandKept ==
  ASSUME IInv, NEW r \in Request, r \notin Created, Created' = Created \cup {r},
         found' = found, told' = told, Listed \subseteq Listed'
  PROVE  InHand'
<1>1. told[r] = <<>>
  BY DEF IInv, Fate
<1> QED
  BY <1>1 DEF IInv, InHand

\* A request enters the list and is sent.
LEMMA SendStep ==
  ASSUME IInv, NEW r \in Request, Send(r)
  PROVE  IInv'
<1>1. /\ step' = [step EXCEPT ![r] = "waiting"] /\ step[r] = "numbered"
      /\ messages_list' = Append(messages_list, r)
      /\ UNCHANGED <<seq_num, found, told, raced>>
  BY DEF Send, Count
<1>2. r \notin Created /\ r \notin Listed
  BY <1>1 DEF IInv, Fate, Created
<1>3. /\ messages_list' \in Seq(Request)
      /\ NoRepetition(messages_list')
      /\ Listed' = Listed \cup {r}
  BY <1>1, <1>2, Enters DEF IInv
<1>4. message_count' \in Seqs
  BY CountTypes DEF IInv, TypeInv, Send
<1>5. TypeInv'
  BY <1>1, <1>3, <1>4 DEF IInv, TypeInv, TypeOK, NoRepetition
<1>6. Created' = Created \cup {r}
  BY <1>1 DEF IInv, TypeInv, TypeOK, Created
<1>7. ASSUME NEW q \in Request PROVE Fate(q)'
  <2>1. CASE q = r
    BY <1>1, <1>2, <1>3, <1>6, <2>1 DEF IInv, TypeInv, TypeOK, Fate, Words
  <2>2. CASE q # r
    <3>1. step'[q] = step[q]
      BY <1>1, <2>2 DEF IInv, TypeInv, TypeOK
    <3> QED
      BY <3>1, <1>1, <1>3, <2>2, FateKept DEF IInv
  <2> QED
    BY <2>1, <2>2
<1>8. InHand'
  BY <1>1, <1>2, <1>3, <1>6, InHandKept
<1> QED
  BY <1>5, <1>7, <1>8 DEF IInv

\* A request is sent without having entered the list.
LEMMA SendUnlistedStep ==
  ASSUME IInv, NEW r \in Request, SendUnlisted(r)
  PROVE  IInv'
<1>1. /\ step' = [step EXCEPT ![r] = "unlisted"] /\ step[r] = "numbered"
      /\ UNCHANGED <<seq_num, messages_list, found, told, raced>>
  BY DEF SendUnlisted, Count
<1>2. r \notin Created /\ r \notin Listed
  BY <1>1 DEF IInv, Fate, Created
<1>3. Listed' = Listed
  BY <1>1 DEF Listed
<1>4. message_count' \in Seqs
  BY CountTypes DEF IInv, TypeInv, SendUnlisted
<1>5. TypeInv'
  BY <1>1, <1>4 DEF IInv, TypeInv, TypeOK, NoRepetition
<1>6. Created' = Created \cup {r}
  BY <1>1 DEF IInv, TypeInv, TypeOK, Created
<1>7. ASSUME NEW q \in Request PROVE Fate(q)'
  <2>1. CASE q = r
    BY <1>1, <1>2, <1>3, <1>6, <2>1 DEF IInv, TypeInv, TypeOK, Fate, Words
  <2>2. CASE q # r
    <3>1. step'[q] = step[q]
      BY <1>1, <2>2 DEF IInv, TypeInv, TypeOK
    <3> QED
      BY <3>1, <1>1, <1>3, FateKept DEF IInv
  <2> QED
    BY <2>1, <2>2
<1>8. InHand'
  BY <1>1, <1>2, <1>3, <1>6, InHandKept
<1> QED
  BY <1>5, <1>7, <1>8 DEF IInv

\* The request of a reply is found.
LEMMA FindStep ==
  ASSUME IInv, NEW seq \in Seqs, NEW reply \in Reply, Find(seq, reply)
  PROVE  IInv'
<1>1. PICK i \in DOMAIN messages_list :
        found' = Element(messages_list[i], reply, Created)
  BY DEF Find
<1>2. UNCHANGED <<step, message_count, seq_num, messages_list, told, raced>>
  BY DEF Find
<1>3. messages_list[i] \in Listed /\ messages_list[i] \in Request
  BY DEF IInv, TypeInv, TypeOK, Listed, Elements
<1>4. messages_list[i] \in Created
  BY <1>3 DEF IInv, Fate
<1>5. Listed' = Listed /\ Created' = Created
  BY <1>2 DEF Listed, Created
<1>6. found' \in [element : Request, reply : Reply, older : SUBSET Request]
  BY <1>1, <1>3 DEF Element, Created
<1>7. TypeInv'
  BY <1>2, <1>6 DEF IInv, TypeInv, TypeOK, NoRepetition
<1>8. \A q \in Request : Fate(q)'
  BY <1>2, <1>5, FateKept DEF IInv
<1>9. InHand'
  BY <1>1, <1>3, <1>4, <1>5 DEF InHand, Element
<1> QED
  BY <1>7, <1>8, <1>9 DEF IInv

\* The element in hand is what it was when it was found.
LEMMA FoundTypes ==
  ASSUME TypeOK, found # NoElement
  PROVE  found.element \in Request /\ found.reply \in Reply
BY DEF TypeOK

\* A request that is told something and leaves the list.
LEMMA EndStep ==
  ASSUME IInv, NEW r \in Listed, NEW x \in Reply \cup {Timeout},
         Tell(r, x), messages_list' = Without(messages_list, r),
         UNCHANGED <<step, message_count, seq_num>>,
         found' \in {found, NoElement}, raced' \in BOOLEAN, raced => raced',
         found' # NoElement => x = Timeout
  PROVE  IInv'
<1>1. r \in Request
  BY ListedTypes DEF IInv, TypeInv
<1>2. /\ messages_list' \in Seq(Request)
      /\ NoRepetition(messages_list')
      /\ Listed' = Listed \ {r}
  BY Leaves DEF IInv
<1>3. /\ told' \in [Request -> Seq(Reply \cup {Timeout})]
      /\ told'[r] = Append(told[r], x)
      /\ \A q \in Request : q # r => told'[q] = told[q]
  BY <1>1, TellTypes DEF IInv, TypeInv
<1>4. told[r] = <<>> /\ step[r] = "waiting" /\ r \in Created
  BY <1>1 DEF IInv, Fate
<1>5. told'[r] = <<x>>
  BY <1>3, <1>4
<1>6. Created' = Created
  BY DEF Created
<1>7. TypeInv'
  BY <1>2, <1>3 DEF IInv, TypeInv, TypeOK, NoRepetition
<1>8. ASSUME NEW q \in Request PROVE Fate(q)'
  <2>1. CASE q = r
    <3>1. Words(r)'
      BY <1>5 DEF Words
    <3>2. told'[r] # <<>>
      BY <1>5
    <3> QED
      BY <1>2, <1>4, <1>6, <2>1, <3>1, <3>2 DEF Fate
  <2>2. CASE q # r
    BY <1>2, <1>3, <2>2, FateKept DEF IInv
  <2> QED
    BY <2>1, <2>2
<1>9. InHand'
  <2> SUFFICES ASSUME found' # NoElement PROVE InHand'
    BY DEF InHand
  <2>1. found' = found /\ x = Timeout
    OBVIOUS
  <2>2. found.element \in Created \cap found.older
    BY <2>1 DEF IInv, InHand
  <2>3. found.element \notin Listed' => told'[found.element] = <<Timeout>>
    BY <1>2, <1>3, <1>5, <2>1, <2>2 DEF IInv, InHand, Created
  <2>4. \A q \in Created \ found.older : told'[q] \in {<<>>, <<Timeout>>}
    BY <1>3, <1>5, <2>1 DEF IInv, InHand, Created
  <2> QED
    BY <1>6, <2>1, <2>2, <2>3, <2>4 DEF InHand
<1> QED
  BY <1>7, <1>8, <1>9 DEF IInv

\* The reply goes to a request that has left the list, or never was in it.
LEMMA LateStep ==
  ASSUME IInv, NEW r \in Created \ Listed, NEW x \in Reply, Tell(r, x),
         told[r] \in {<<>>, <<Timeout>>}, found' = NoElement, raced' = TRUE,
         UNCHANGED <<step, message_count, seq_num, messages_list>>
  PROVE  IInv'
<1>1. r \in Request
  BY DEF Created
<1>2. Listed' = Listed /\ Created' = Created
  BY DEF Listed, Created
<1>3. /\ told' \in [Request -> Seq(Reply \cup {Timeout})]
      /\ told'[r] = Append(told[r], x)
      /\ \A q \in Request : q # r => told'[q] = told[q]
  BY <1>1, TellTypes DEF IInv, TypeInv
<1>4. told'[r] = <<x>> \/ told'[r] = <<Timeout, x>>
  <2>1. CASE told[r] = <<>>
    BY <1>3, <2>1
  <2>2. CASE told[r] = <<Timeout>>
    <3>1. /\ told'[r] \in Seq(Reply \cup {Timeout})
          /\ Len(told'[r]) = 2 /\ told'[r][1] = Timeout /\ told'[r][2] = x
      BY <1>1, <1>3, <2>2
    <3> QED
      BY <3>1
  <2> QED
    BY <2>1, <2>2
<1>5. TypeInv'
  BY <1>3 DEF IInv, TypeInv, TypeOK, NoRepetition
<1>6. ASSUME NEW q \in Request PROVE Fate(q)'
  <2>1. CASE q = r
    BY <1>2, <1>4, <2>1 DEF Fate, Words
  <2>2. CASE q # r
    BY <1>2, <1>3, <2>2, FateKept DEF IInv
  <2> QED
    BY <2>1, <2>2
<1> QED
  BY <1>5, <1>6 DEF IInv, InHand

\* The element was freed while it was in hand.
LEMMA TakeFreedStep == ASSUME IInv, TakeFreed PROVE IInv'
<1>1. /\ found.element \in Request /\ found.reply \in Reply
      /\ found.element \in Created /\ found.element \notin Listed
      /\ told[found.element] = <<Timeout>>
  BY FoundTypes DEF IInv, TypeInv, InHand, TakeFreed
<1>2. CASE Tell(found.element, found.reply) /\ UNCHANGED messages_list
  BY <1>1, <1>2, LateStep DEF TakeFreed
<1>3. ASSUME NEW r \in Created \ found.older, Tell(r, found.reply),
             r \in Listed, messages_list' = Without(messages_list, r)
      PROVE  IInv'
  BY <1>1, <1>3, EndStep DEF TakeFreed
<1>4. ASSUME NEW r \in Created \ found.older, Tell(r, found.reply),
             r \notin Listed, UNCHANGED messages_list
      PROVE  IInv'
  <2>1. told[r] \in {<<>>, <<Timeout>>}
    BY DEF IInv, InHand, TakeFreed
  <2> QED
    BY <1>1, <1>4, <2>1, LateStep DEF TakeFreed
<1> QED
  BY <1>2, <1>3, <1>4 DEF TakeFreed

\* The lock is not to be had.
LEMMA TakeBusyStep == ASSUME IInv, TakeBusy PROVE IInv'
<1>1. Listed' = Listed
  BY DEF TakeBusy, Listed
<1>2. TypeInv'
  BY DEF IInv, TypeInv, TypeOK, NoRepetition, TakeBusy
<1>3. \A q \in Request : Fate(q)'
  BY <1>1, FateKept DEF IInv, TakeBusy
<1> QED
  BY <1>2, <1>3 DEF IInv, InHand, TakeBusy

\* Every step keeps the invariant.
LEMMA NextInv == ASSUME IInv, [Next]_vars PROVE IInv'
<1>1. ASSUME NEW r \in Request, Number(r) \/ Send(r) \/ SendUnlisted(r)
      PROVE  IInv'
  BY <1>1, NumberStep, SendStep, SendUnlistedStep
<1>2. ASSUME NEW seq \in Seqs, NEW reply \in Reply, Find(seq, reply) PROVE IInv'
  BY <1>2, FindStep
<1>3. CASE Take
  <2>1. found.reply \in Reply
    BY <1>3, FoundTypes DEF IInv, TypeInv, Take
  <2>2. raced' = raced /\ raced \in BOOLEAN
    BY <1>3 DEF Take, IInv, TypeInv, TypeOK
  <2> QED
    BY <1>3, <2>1, <2>2, EndStep DEF Take
<1>4. CASE TakeFreed
  BY <1>4, TakeFreedStep
<1>5. CASE TakeBusy
  BY <1>5, TakeBusyStep
<1>6. ASSUME NEW r \in Request, Expire(r) PROVE IInv'
  <2>1. raced' = raced /\ raced \in BOOLEAN
    BY <1>6 DEF Expire, IInv, TypeInv, TypeOK
  <2> QED
    BY <1>6, <2>1, EndStep DEF Expire
<1>7. CASE UNCHANGED vars
  <2>1. Listed' = Listed /\ Created' = Created
    BY <1>7 DEF vars, Listed, Created
  <2>2. TypeInv'
    BY <1>7 DEF vars, IInv, TypeInv, TypeOK, NoRepetition
  <2>3. \A q \in Request : Fate(q)'
    BY <1>7, <2>1, FateKept DEF vars, IInv
  <2> QED
    BY <1>7, <2>1, <2>2, <2>3 DEF vars, IInv, InHand
<1> QED
  BY <1>1, <1>2, <1>3, <1>4, <1>5, <1>6, <1>7 DEF Next, Tx, Removal, Expiry

\* The invariant holds always.
LEMMA Invariance == Spec => []IInv
<1>1. Init => IInv
  BY InitInv
<1>2. IInv /\ [Next]_vars => IInv'
  BY NextInv
<1> QED
  BY <1>1, <1>2, PTL DEF Spec

(***************************************************************************)
(* Configuration over the bus                                              *)
(***************************************************************************)
Sent == Created \cup asked

\* The server has done what x asked for, or said that it has not.
Done(x) == served[x] # "no" /\ (ask[x].op = "set" => served[x] = "done")

\* A query is the only one of its request, which is not served yet.
QueryInv(f) ==
  /\ f.id \in Sent /\ f.seq = NumberOf(f.id) /\ served[f.id] = "no"
  /\ \A g \in net : g.kind = "query" /\ g.id = f.id => g = f

AnswerInv(f) == f.id \in Sent /\ f.seq = NumberOf(f.id) /\ Done(f.id)

NetInv ==
  /\ net \subseteq Frame
  /\ served \in [Request \cup Other -> {"no", "done", "refused"}]
  /\ asked \subseteq Other
  /\ \A x \in Request \cup Other : x \in Sent \/ served[x] = "no"
  /\ \A f \in net : /\ f.kind = "query" /\ f.id # Commit => QueryInv(f)
                    /\ f.kind = "answer" => AnswerInv(f)

\* The reply in the hands of the BCMP thread has the number of its element.
HandInv ==
  found # NoElement =>
    /\ found.reply \in Sent /\ Done(found.reply)
    /\ seq_num[found.element] = NumberOf(found.reply)

\* So has a reply that a callback got, unless it met the expiry.
ToldInv ==
  \A r \in Request : \A x \in RepliesTo(r) :
    /\ x \in Sent /\ Done(x)
    /\ raced \/ (r \in Created /\ seq_num[r] = NumberOf(x))

ConfigInv == IInv /\ NetInv /\ HandInv /\ ToldInv

\* What was sent keeps its number.
NumbersKept ==
  /\ \A x \in Sent : x \in Sent' /\ NumberOf(x)' = NumberOf(x)
  /\ \A r \in Created : r \in Created' /\ seq_num'[r] = seq_num[r]

\* A step that brings nothing new to a callback or to the links.
LEMMA NothingNew ==
  ASSUME ConfigInv, IInv', NumbersKept, UNCHANGED <<ask, served>>,
         asked' \subseteq Other, found' \in {found, NoElement},
         \A r \in Request : RepliesTo(r)' \subseteq RepliesTo(r),
         net' \subseteq net, raced => raced'
  PROVE  ConfigInv'
<1>1. NetInv'
  <2>1. ASSUME NEW f \in net', f.kind = "query", f.id # Commit PROVE QueryInv(f)'
    <3>1. QueryInv(f)
      BY <2>1 DEF ConfigInv, NetInv
    <3> QED
      BY <3>1 DEF QueryInv, NumbersKept
  <2>2. ASSUME NEW f \in net', f.kind = "answer" PROVE AnswerInv(f)'
    <3>1. AnswerInv(f)
      BY <2>2 DEF ConfigInv, NetInv
    <3> QED
      BY <3>1 DEF AnswerInv, NumbersKept, Done
  <2> QED
    BY <2>1, <2>2 DEF ConfigInv, NetInv, NumbersKept
<1>2. HandInv'
  <2> SUFFICES ASSUME found' # NoElement PROVE HandInv'
    BY DEF HandInv
  <2>1. found' = found /\ found # NoElement
    OBVIOUS
  <2>2. found.element \in Created
    BY <2>1 DEF ConfigInv, IInv, InHand
  <2> QED
    BY <2>1, <2>2 DEF ConfigInv, HandInv, NumbersKept, Done
<1>3. ToldInv'
  BY DEF ConfigInv, ToldInv, NumbersKept, Done
<1> QED
  BY <1>1, <1>2, <1>3 DEF ConfigInv

\* Steps that create no request and number none keep the numbers.
LEMMA SameNumbers ==
  ASSUME UNCHANGED <<step, seq_num>>, asked \subseteq asked'
  PROVE  NumbersKept
BY DEF NumbersKept, Sent, Created, NumberOf

\* What a callback was told before.
LEMMA SameWords ==
  ASSUME told' = told
  PROVE  \A r \in Request : RepliesTo(r)' = RepliesTo(r)
BY DEF RepliesTo

\* What a callback is told when it is told one thing more.
LEMMA OneMoreWord ==
  ASSUME TypeOK, NEW r \in Request, NEW x \in Reply \cup {Timeout}, Tell(r, x)
  PROVE  /\ RepliesTo(r)' = RepliesTo(r) \cup ({x} \ {Timeout})
         /\ \A q \in Request : q # r => RepliesTo(q)' = RepliesTo(q)
<1>1. /\ told'[r] = Append(told[r], x)
      /\ \A q \in Request : q # r => told'[q] = told[q]
  BY TellTypes
<1>2. told[r] \in Seq(Reply \cup {Timeout})
  BY DEF TypeOK
<1>3. {told'[r][i] : i \in DOMAIN told'[r]} = {told[r][i] : i \in DOMAIN told[r]} \cup {x}
  BY <1>1, <1>2
<1> QED
  BY <1>1, <1>3 DEF RepliesTo

\* At first there is nothing.
LEMMA ConfigInitInv == ConfigInit => ConfigInv
<1> SUFFICES ASSUME ConfigInit PROVE ConfigInv
  OBVIOUS
<1>1. IInv
  BY InitInv DEF ConfigInit
<1>2. \A r \in Request : RepliesTo(r) = {}
  BY DEF ConfigInit, Init, RepliesTo
<1> QED
  BY <1>1, <1>2 DEF ConfigInit, Init, ConfigInv, NetInv, HandInv, ToldInv

\* A task numbers its request.
LEMMA ConfigNumber ==
  ASSUME ConfigInv, NEW r \in Request, Number(r),
         UNCHANGED <<ask, net, asked, served>>
  PROVE  ConfigInv'
<1>1. IInv'
  BY NumberStep DEF ConfigInv
<1>2. r \notin Created /\ Created' = Created
  BY DEF Number, ConfigInv, IInv, TypeInv, TypeOK, Created
<1>3. r \notin asked
  BY PartiesAssumption DEF ConfigInv, NetInv
<1>4. \A q \in Request \ {r} : seq_num'[q] = seq_num[q]
  BY DEF Number, ConfigInv, IInv, TypeInv, TypeOK
<1>5. NumbersKept
  BY <1>2, <1>3, <1>4 DEF NumbersKept, NumberOf, Sent, Created
<1> QED
  BY <1>1, <1>5, SameWords, NothingNew DEF Number, ConfigInv, NetInv

\* A new query, of what was not sent before.
LEMMA NewQuery ==
  ASSUME ConfigInv, IInv', NumbersKept, UNCHANGED <<ask, served, found, told, raced>>,
         asked' \subseteq Other, NEW x \in Request \cup Other, x \notin Sent, x \in Sent',
         NEW n \in 0..(SeqSpace - 1), n = NumberOf(x)', served[x] = "no",
         NEW link \in {"near", "far"}, net' = net \cup {Query(x, n, link)}
  PROVE  ConfigInv'
<1> DEFINE new == Query(x, n, link)
<1>1. new \in Frame /\ new.kind = "query" /\ new.id = x /\ new.seq = n
  BY DEF Query, Frame
<1>2. x # Commit
  BY PartiesAssumption
<1>3. NetInv'
  <2>1. ASSUME NEW f \in net, f.kind = "query", f.id # Commit PROVE QueryInv(f)'
    <3>1. QueryInv(f)
      BY <2>1 DEF ConfigInv, NetInv
    <3> QED
      BY <1>1, <3>1 DEF QueryInv, NumbersKept
  <2>2. ASSUME NEW f \in net, f.kind = "answer" PROVE AnswerInv(f)'
    <3>1. AnswerInv(f)
      BY <2>2 DEF ConfigInv, NetInv
    <3> QED
      BY <3>1 DEF AnswerInv, NumbersKept, Done
  <2>3. QueryInv(new)'
    <3>1. ASSUME NEW g \in net, g.kind = "query", g.id = x PROVE FALSE
      BY <1>2, <3>1 DEF ConfigInv, NetInv, QueryInv
    <3> QED
      BY <1>1, <3>1 DEF QueryInv
  <2> QED
    BY <1>1, <2>1, <2>2, <2>3 DEF ConfigInv, NetInv, NumbersKept
<1>4. HandInv' /\ ToldInv'
  <2>1. \A r \in Request : RepliesTo(r)' = RepliesTo(r)
    BY SameWords
  <2>2. found # NoElement => found.element \in Created
    BY DEF ConfigInv, IInv, InHand
  <2> QED
    BY <2>1, <2>2 DEF ConfigInv, HandInv, ToldInv, NumbersKept, Done
<1> QED
  BY <1>3, <1>4 DEF ConfigInv

\* A request is sent, in the list or not.
LEMMA ConfigSend ==
  ASSUME ConfigInv, NEW r \in Request, Send(r) \/ SendUnlisted(r),
         net' = net \cup {Query(r, seq_num[r], "near")},
         UNCHANGED <<ask, asked, served>>
  PROVE  ConfigInv'
<1>1. IInv'
  BY SendStep, SendUnlistedStep DEF ConfigInv
<1>2. /\ step[r] = "numbered" /\ step'[r] \in {"waiting", "unlisted"}
      /\ \A q \in Request \ {r} : step'[q] = step[q]
      /\ UNCHANGED <<seq_num, found, told, raced>>
  BY DEF Send, SendUnlisted, Count, ConfigInv, IInv, TypeInv, TypeOK
<1>3. r \notin asked
  BY PartiesAssumption DEF ConfigInv, NetInv
<1>4. r \notin Sent /\ r \in Sent'
  BY <1>2, <1>3 DEF Sent, Created
<1>5. NumbersKept
  BY <1>2 DEF NumbersKept, NumberOf, Sent, Created
<1>6. seq_num[r] = NumberOf(r)' /\ seq_num[r] \in 0..(SeqSpace - 1)
  BY <1>2 DEF NumberOf, ConfigInv, IInv, TypeInv, TypeOK, Seqs
<1>7. served[r] = "no"
  BY <1>4 DEF ConfigInv, NetInv
<1>8. asked' \subseteq Other
  BY DEF ConfigInv, NetInv
<1> QED
  BY <1>1, <1>2, <1>4, <1>5, <1>6, <1>7, <1>8, NewQuery

\* The request list stays as it is.
LEMMA RequestsStay ==
  ASSUME ConfigInv, UNCHANGED requests
  PROVE  /\ IInv'
         /\ asked \subseteq asked' => NumbersKept
         /\ UNCHANGED <<step, seq_num, found, told, raced>>
<1>1. UNCHANGED vars
  BY DEF requests
<1>2. IInv'
  BY <1>1, NextInv DEF ConfigInv
<1>3. UNCHANGED <<step, seq_num, found, told, raced>>
  BY <1>1 DEF vars
<1>4. asked \subseteq asked' => NumbersKept
  BY <1>3, SameNumbers
<1> QED
  BY <1>2, <1>3, <1>4

\* The other node sends a request.
LEMMA ConfigCallOther ==
  ASSUME ConfigInv, NEW o \in Other, CallOther(o)
  PROVE  ConfigInv'
<1>1. IInv' /\ UNCHANGED <<step, seq_num, found, told, raced>>
  BY RequestsStay DEF CallOther
<1>2. NumbersKept
  BY <1>1, SameNumbers DEF CallOther
<1>3. o \notin Request
  BY PartiesAssumption
<1>4. o \notin Sent /\ o \in Sent'
  BY <1>3 DEF CallOther, Sent, Created
<1>5. OtherSeq[o] = NumberOf(o)' /\ OtherSeq[o] \in 0..(SeqSpace - 1)
  BY <1>3, OtherSeqAssumption DEF NumberOf
<1>6. served[o] = "no"
  BY <1>4 DEF ConfigInv, NetInv
<1>7. asked' \subseteq Other /\ UNCHANGED <<ask, served>>
  BY DEF CallOther, ConfigInv, NetInv
<1>8. net' = net \cup {Query(o, OtherSeq[o], "far")}
  BY DEF CallOther
<1> QED
  BY <1>1, <1>2, <1>4, <1>5, <1>6, <1>7, <1>8, NewQuery

\* A commit is sent.
LEMMA ConfigCallCommit == ASSUME ConfigInv, CallCommit PROVE ConfigInv'
<1>1. IInv' /\ NumbersKept /\ UNCHANGED <<step, seq_num, found, told, raced>>
  BY RequestsStay DEF CallCommit
<1> DEFINE new == Query(Commit, 0, "near")
<1>2. new \in Frame /\ new.kind = "query" /\ new.id = Commit
  BY SeqSpaceAssumption DEF Query, Frame
<1>3. ASSUME NEW f \in net, f.kind = "query", f.id # Commit PROVE QueryInv(f)'
  <2>1. QueryInv(f)
    BY <1>3 DEF ConfigInv, NetInv
  <2> QED
    BY <1>1, <1>2, <1>3, <2>1 DEF QueryInv, NumbersKept, CallCommit
<1>4. ASSUME NEW f \in net, f.kind = "answer" PROVE AnswerInv(f)'
  <2>1. AnswerInv(f)
    BY <1>4 DEF ConfigInv, NetInv
  <2> QED
    BY <1>1, <2>1 DEF AnswerInv, NumbersKept, Done, CallCommit
<1>5. NetInv'
  BY <1>1, <1>2, <1>3, <1>4 DEF ConfigInv, NetInv, CallCommit, NumbersKept
<1>6. HandInv' /\ ToldInv'
  <2>1. \A r \in Request : RepliesTo(r)' = RepliesTo(r)
    BY <1>1, SameWords
  <2>2. found # NoElement => found.element \in Created
    BY DEF ConfigInv, IInv, InHand
  <2> QED
    BY <1>1, <2>1, <2>2 DEF ConfigInv, HandInv, ToldInv, NumbersKept, Done, CallCommit
<1> QED
  BY <1>1, <1>5, <1>6 DEF ConfigInv

\* A query goes on to the next link.
LEMMA ConfigForward ==
  ASSUME ConfigInv, NEW f \in net, ForwardQuery(f),
         UNCHANGED <<requests, ask, asked, served>>
  PROVE  ConfigInv'
<1>1. IInv' /\ NumbersKept /\ UNCHANGED <<step, seq_num, found, told, raced>>
  BY RequestsStay
<1> DEFINE new == Query(f.id, f.seq, "near")
<1>2. f \in Frame /\ f.kind = "query"
  BY DEF ForwardQuery, Query, ConfigInv, NetInv
<1>3. new \in Frame /\ new.kind = "query" /\ new.id = f.id /\ new.seq = f.seq
  BY <1>2 DEF Query, Frame
<1>4. net' = (net \ {f}) \cup {new}
  BY DEF ForwardQuery
<1>5. ASSUME NEW g \in net \ {f}, g.kind = "query", g.id # Commit PROVE QueryInv(g)'
  <2>1. QueryInv(g) /\ g.id # f.id
    BY <1>2, <1>5 DEF ConfigInv, NetInv, QueryInv
  <2> QED
    BY <1>1, <1>3, <1>4, <2>1 DEF QueryInv, NumbersKept
<1>6. f.id # Commit => QueryInv(new)'
  <2> SUFFICES ASSUME f.id # Commit PROVE QueryInv(new)'
    OBVIOUS
  <2>1. QueryInv(f)
    BY <1>2 DEF ConfigInv, NetInv
  <2> QED
    BY <1>1, <1>3, <1>4, <2>1 DEF QueryInv, NumbersKept
<1>7. ASSUME NEW g \in net, g.kind = "answer" PROVE AnswerInv(g)'
  <2>1. AnswerInv(g)
    BY <1>7 DEF ConfigInv, NetInv
  <2> QED
    BY <1>1, <2>1 DEF AnswerInv, NumbersKept, Done
<1>8. NetInv'
  BY <1>1, <1>3, <1>4, <1>5, <1>6, <1>7 DEF ConfigInv, NetInv, NumbersKept
<1>9. HandInv' /\ ToldInv'
  <2>1. \A r \in Request : RepliesTo(r)' = RepliesTo(r)
    BY <1>1, SameWords
  <2>2. found # NoElement => found.element \in Created
    BY DEF ConfigInv, IInv, InHand
  <2> QED
    BY <1>1, <2>1, <2>2 DEF ConfigInv, HandInv, ToldInv, NumbersKept, Done
<1> QED
  BY <1>1, <1>8, <1>9 DEF ConfigInv

\* Frames get lost, or are printed, or taken by the server without an answer.
LEMMA ConfigDrop ==
  ASSUME ConfigInv, net' \subseteq net, UNCHANGED <<requests, ask, asked, served>>
  PROVE  ConfigInv'
<1>1. IInv' /\ NumbersKept /\ UNCHANGED <<step, seq_num, found, told, raced>>
  BY RequestsStay
<1>2. asked' \subseteq Other
  BY DEF ConfigInv, NetInv
<1> QED
  BY <1>1, <1>2, SameWords, NothingNew

\* The request of a reply is found.
LEMMA ConfigReceive ==
  ASSUME ConfigInv, NEW f \in net, Receive(f)
  PROVE  ConfigInv'
<1>1. /\ f.kind = "answer" /\ f \in Frame /\ AnswerInv(f)
  BY DEF Receive, Answer, ConfigInv, NetInv
<1>2. f.seq \in Seqs /\ f.id \in Reply
  BY <1>1, ReplyAssumption DEF Frame, Seqs
<1>3. IInv'
  BY <1>2, FindStep DEF Receive, ConfigInv
<1>4. PICK i \in DOMAIN messages_list :
        /\ Matches(f.seq, i)
        /\ found' = Element(messages_list[i], f.id, Created)
  BY DEF Receive, Find
<1>5. /\ UNCHANGED <<step, seq_num, told, raced, ask, asked, served>>
      /\ net' = net \ {f}
  BY DEF Receive, Find
<1>6. NumbersKept
  BY <1>5, SameNumbers
<1>7. HandInv'
  BY <1>1, <1>4, <1>5, <1>6 DEF HandInv, Element, Matches, AnswerInv, NumbersKept, Done
<1>8. NetInv'
  <2>1. ASSUME NEW g \in net', g.kind = "query", g.id # Commit PROVE QueryInv(g)'
    <3>1. QueryInv(g)
      BY <1>5, <2>1 DEF ConfigInv, NetInv
    <3> QED
      BY <1>5, <1>6, <3>1 DEF QueryInv, NumbersKept
  <2>2. ASSUME NEW g \in net', g.kind = "answer" PROVE AnswerInv(g)'
    <3>1. AnswerInv(g)
      BY <1>5, <2>2 DEF ConfigInv, NetInv
    <3> QED
      BY <1>5, <1>6, <3>1 DEF AnswerInv, NumbersKept, Done
  <2> QED
    BY <1>5, <1>6, <2>1, <2>2 DEF ConfigInv, NetInv, NumbersKept
<1>9. ToldInv'
  BY <1>5, <1>6, SameWords DEF ConfigInv, ToldInv, NumbersKept, Done
<1> QED
  BY <1>3, <1>7, <1>8, <1>9 DEF ConfigInv

\* The callback of an element gets a reply that has the number of the element,
\* or a reply is too late for the request it was found for.
LEMMA ConfigTold ==
  ASSUME ConfigInv, IInv', NEW r \in Created, found # NoElement,
         Tell(r, found.reply), r = found.element \/ raced', raced => raced',
         found' = NoElement,
         UNCHANGED <<step, seq_num, ask, net, asked, served>>
  PROVE  ConfigInv'
<1>1. found.reply \in Reply /\ r \in Request
  BY FoundTypes DEF ConfigInv, IInv, TypeInv, Created
<1>2. NumbersKept
  BY SameNumbers
<1>3. /\ RepliesTo(r)' = RepliesTo(r) \cup ({found.reply} \ {Timeout})
      /\ \A q \in Request : q # r => RepliesTo(q)' = RepliesTo(q)
  BY <1>1, OneMoreWord DEF ConfigInv, IInv, TypeInv
<1>4. NetInv'
  <2>1. ASSUME NEW f \in net, f.kind = "query", f.id # Commit PROVE QueryInv(f)'
    <3>1. QueryInv(f)
      BY <2>1 DEF ConfigInv, NetInv
    <3> QED
      BY <1>2, <3>1 DEF QueryInv, NumbersKept
  <2>2. ASSUME NEW f \in net, f.kind = "answer" PROVE AnswerInv(f)'
    <3>1. AnswerInv(f)
      BY <2>2 DEF ConfigInv, NetInv
    <3> QED
      BY <1>2, <3>1 DEF AnswerInv, NumbersKept, Done
  <2> QED
    BY <1>2, <2>1, <2>2 DEF ConfigInv, NetInv, NumbersKept
<1>5. HandInv'
  BY DEF HandInv
<1>6. ToldInv'
  <2> SUFFICES ASSUME NEW q \in Request, NEW x \in RepliesTo(q)'
               PROVE  /\ x \in Sent' /\ Done(x)'
                      /\ raced' \/ (q \in Created /\ seq_num[q] = NumberOf(x))'
    BY DEF ToldInv
  <2>1. CASE x \in RepliesTo(q)
    BY <1>2, <2>1 DEF ConfigInv, ToldInv, NumbersKept, Done
  <2>2. CASE x \notin RepliesTo(q)
    <3>1. q = r /\ x = found.reply
      BY <1>3, <2>2
    <3> QED
      BY <1>2, <3>1 DEF ConfigInv, HandInv, NumbersKept, Done
  <2> QED
    BY <2>1, <2>2
<1> QED
  BY <1>4, <1>5, <1>6 DEF ConfigInv

\* The BCMP thread is done with an element.
LEMMA ConfigRemove == ASSUME ConfigInv, Remove PROVE ConfigInv'
<1>1. UNCHANGED <<ask, net, asked, served>>
  BY DEF Remove
<1>2. IInv'
  BY NextInv DEF ConfigInv, Remove, Next
<1>3. CASE Take
  <2>1. found.element \in Created
    BY <1>3 DEF Take, ConfigInv, IInv, InHand
  <2> QED
    BY <1>1, <1>2, <1>3, <2>1, ConfigTold DEF Take
<1>4. CASE TakeFreed
  <2>1. found.element \in Created
    BY <1>4 DEF TakeFreed, ConfigInv, IInv, InHand
  <2>2. PICK r \in Created : Tell(r, found.reply)
    BY <1>4, <2>1 DEF TakeFreed
  <2> QED
    BY <1>1, <1>2, <1>4, <2>2, ConfigTold DEF TakeFreed
<1>5. CASE TakeBusy
  <2>1. NumbersKept
    BY <1>1, <1>5, SameNumbers DEF TakeBusy
  <2> QED
    BY <1>1, <1>2, <1>5, <2>1, SameWords, NothingNew DEF TakeBusy, ConfigInv, NetInv
<1> QED
  BY <1>3, <1>4, <1>5 DEF Remove, Removal

\* A request runs out of time.
LEMMA ConfigEnd == ASSUME ConfigInv, End PROVE ConfigInv'
<1>1. PICK r \in Request : Expire(r)
  BY DEF End, Expiry
<1>2. UNCHANGED <<ask, net, asked, served, step, seq_num, found, raced>>
  BY <1>1 DEF End, Expire
<1>3. IInv'
  BY NextInv DEF ConfigInv, End, Next
<1>4. NumbersKept
  BY <1>2, SameNumbers
<1>5. \A q \in Request : RepliesTo(q)' \subseteq RepliesTo(q)
  BY <1>1, OneMoreWord DEF Expire, ConfigInv, IInv, TypeInv
<1> QED
  BY <1>2, <1>3, <1>4, <1>5, NothingNew DEF ConfigInv, NetInv

\* A request is served, and what the server says is what it did.
LEMMA ServedAsTold ==
  ASSUME NEW f \in net, Serve(f)
  PROVE  /\ f.id # Commit /\ f.kind = "query"
         /\ UNCHANGED <<requests, ask, asked>>
         /\ \E outcome \in {"done", "refused"} :
              /\ served' = [served EXCEPT ![f.id] = outcome]
              /\ \/ net' = net \ {f}
                 \/ /\ net' = (net \ {f}) \cup {Answer(f.id, f.seq)}
                    /\ ask[f.id].op = "set" => outcome = "done"
BY DEF Serve, Query, ServeGet, ServeSet, ServeDelete, ServeStatus, Replied, Ignored

\* The server's answer.
LEMMA ConfigServe ==
  ASSUME ConfigInv, NEW f \in net, Serve(f)
  PROVE  ConfigInv'
<1>1. /\ f.id # Commit /\ f.kind = "query"
      /\ UNCHANGED <<requests, ask, asked>>
  BY ServedAsTold
<1>2. PICK outcome \in {"done", "refused"} :
        /\ served' = [served EXCEPT ![f.id] = outcome]
        /\ \/ net' = net \ {f}
           \/ /\ net' = (net \ {f}) \cup {Answer(f.id, f.seq)}
              /\ ask[f.id].op = "set" => outcome = "done"
  BY ServedAsTold
<1>3. IInv' /\ NumbersKept /\ UNCHANGED <<step, seq_num, found, told, raced>>
  BY <1>1, RequestsStay
<1>4. QueryInv(f) /\ f \in Frame
  BY <1>1 DEF ConfigInv, NetInv
<1>5. f.id \in Request \cup Other
  BY <1>1, <1>4 DEF Frame
<1>6. /\ served'[f.id] = outcome
      /\ \A x \in Request \cup Other : x # f.id => served'[x] = served[x]
      /\ served' \in [Request \cup Other -> {"no", "done", "refused"}]
  BY <1>2, <1>5 DEF ConfigInv, NetInv
<1>7. \A x : x \in Sent => x \in Request \cup Other
  BY DEF Sent, Created, ConfigInv, NetInv
<1>8. ASSUME NEW x \in Sent, Done(x) PROVE Done(x)'
  BY <1>1, <1>4, <1>6, <1>7, <1>8 DEF Done, QueryInv
<1>9. NetInv'
  <2>1. ASSUME NEW g \in net \ {f}, g.kind = "query", g.id # Commit PROVE QueryInv(g)'
    <3>1. QueryInv(g) /\ g.id # f.id /\ g.id \in Request \cup Other
      BY <1>1, <1>7, <2>1 DEF ConfigInv, NetInv, QueryInv
    <3> QED
      BY <1>2, <1>3, <1>6, <3>1 DEF QueryInv, NumbersKept, Answer
  <2>2. ASSUME NEW g \in net, g.kind = "answer" PROVE AnswerInv(g)'
    <3>1. AnswerInv(g)
      BY <2>2 DEF ConfigInv, NetInv
    <3> QED
      BY <1>3, <1>8, <3>1 DEF AnswerInv, NumbersKept
  <2>3. Answer(f.id, f.seq) \in net' \ net => AnswerInv(Answer(f.id, f.seq))'
    BY <1>1, <1>2, <1>3, <1>4, <1>6 DEF AnswerInv, QueryInv, NumbersKept, Done, Answer
  <2>4. Answer(f.id, f.seq) \in Frame /\ Answer(f.id, f.seq).kind = "answer"
    BY <1>4, <1>5 DEF Frame, Answer
  <2>5. \A x \in Request \cup Other : x \in Sent' \/ served'[x] = "no"
    BY <1>3, <1>4, <1>6 DEF ConfigInv, NetInv, QueryInv, NumbersKept
  <2> QED
    BY <1>1, <1>2, <1>6, <2>1, <2>2, <2>3, <2>4, <2>5 DEF ConfigInv, NetInv
<1>10. HandInv'
  BY <1>3, <1>8 DEF ConfigInv, HandInv, IInv, InHand, NumbersKept
<1>11. ToldInv'
  <2>1. \A r \in Request : RepliesTo(r)' = RepliesTo(r)
    BY <1>3, SameWords
  <2> QED
    BY <1>3, <1>8, <2>1 DEF ConfigInv, ToldInv, NumbersKept
<1> QED
  BY <1>3, <1>9, <1>10, <1>11 DEF ConfigInv

\* Every step keeps the invariant.
LEMMA ConfigNextInv == ASSUME ConfigInv, [ConfigNext]_allVars PROVE ConfigInv'
<1>1. ASSUME NEW r \in Request, Call(r) PROVE ConfigInv'
  BY <1>1, ConfigNumber, ConfigSend DEF Call
<1>2. CASE CallCommit
  BY <1>2, ConfigCallCommit
<1>3. ASSUME NEW o \in Other, CallOther(o) PROVE ConfigInv'
  BY <1>3, ConfigCallOther
<1>4. ASSUME NEW f \in net, Pass(f) PROVE ConfigInv'
  BY <1>4, ConfigForward, ConfigDrop DEF Pass, PassAnswer
<1>5. ASSUME NEW f \in net, Receive(f) PROVE ConfigInv'
  BY <1>5, ConfigReceive
<1>6. ASSUME NEW f \in net, Serve(f) PROVE ConfigInv'
  BY <1>6, ConfigServe
<1>7. ASSUME NEW f \in net, Lose(f) PROVE ConfigInv'
  BY <1>7, ConfigDrop DEF Lose
<1>8. CASE Remove
  BY <1>8, ConfigRemove
<1>9. CASE ServeCommit
  BY <1>9, ConfigDrop DEF ServeCommit
<1>10. CASE Local
  BY <1>10, ConfigDrop DEF Local
<1>11. CASE End
  BY <1>11, ConfigEnd
<1>12. CASE UNCHANGED allVars
  BY <1>12, ConfigDrop DEF allVars
<1> QED
  BY <1>1, <1>2, <1>3, <1>4, <1>5, <1>6, <1>7, <1>8, <1>9, <1>10, <1>11, <1>12
     DEF ConfigNext

\* The invariant holds always.
LEMMA ConfigInvariance == ConfigSpec => []ConfigInv
<1>1. ConfigInit => ConfigInv
  BY ConfigInitInv
<1>2. ConfigInv /\ [ConfigNext]_allVars => ConfigInv'
  BY ConfigNextInv
<1> QED
  BY <1>1, <1>2, PTL DEF ConfigSpec

(***************************************************************************)
(* The theorems                                                            *)
(***************************************************************************)
\* A request in the list has been told nothing and is in it once
\* (bcmp.cpp:165-178, 606-640), for any number of tasks and replies.
THEOREM ListedIsUntold ==
  (Spec => []ListedUntold) /\ (ConfigSpec => []ListedUntold)
<1>1. IInv => ListedUntold
  <2> SUFFICES ASSUME IInv PROVE ListedUntold
    OBVIOUS
  <2>1. Listed \subseteq Request
    BY ListedTypes DEF IInv, TypeInv
  <2>2. \A r \in Listed : step[r] = "waiting" /\ told[r] = <<>>
    BY <2>1 DEF IInv, Fate
  <2> QED
    BY <2>2 DEF IInv, TypeInv, NoRepetition, ListedUntold
<1> QED
  BY <1>1, Invariance, ConfigInvariance, PTL DEF ConfigInv

\* No request leaves the list in silence, by reply or by expiry.
THEOREM NoRequestEndsInSilence ==
  (Spec => []NoSilentEnd) /\ (ConfigSpec => []NoSilentEnd)
<1>1. IInv => NoSilentEnd
  BY DEF IInv, Fate, NoSilentEnd
<1> QED
  BY <1>1, Invariance, ConfigInvariance, PTL DEF ConfigInv

\* A callback is told twice only when a reply met the expiry between the two
\* holds of the lock, and then of the timeout first.
THEOREM OutcomesAreOrdered ==
  (Spec => []OutcomeOrder) /\ (ConfigSpec => []OutcomeOrder)
<1>1. IInv => OutcomeOrder
  <2> SUFFICES ASSUME IInv, NEW r \in Request
               PROVE  \/ Len(told[r]) <= 1
                      \/ /\ raced /\ Len(told[r]) = 2
                         /\ told[r][1] = Timeout /\ told[r][2] # Timeout
    BY DEF OutcomeOrder
  <2>1. Words(r)
    BY DEF IInv, Fate
  <2>2. CASE raced /\ \E x \in Reply : told[r] = <<Timeout, x>>
    BY <2>2, TimeoutAssumption
  <2>3. CASE \E x \in Reply : told[r] = <<x>>
    BY <2>3
  <2>4. CASE told[r] = <<>> \/ told[r] = <<Timeout>>
    BY <2>4
  <2> QED
    BY <2>1, <2>2, <2>3, <2>4 DEF Words
<1> QED
  BY <1>1, Invariance, ConfigInvariance, PTL DEF ConfigInv

\* Each reply goes to the callback of its own request while the numbers on the
\* bus differ and no reply meets the expiry (bcmp.cpp:164-174), for any number
\* of requests and whatever is lost, late or forwarded.
THEOREM RepliesFindTheirRequests == ConfigSpec => []OwnReplyIfApart
<1>1. ConfigInv => OwnReplyIfApart
  <2> SUFFICES ASSUME ConfigInv, NumbersApart, ~raced,
                      NEW r \in Request, NEW x \in RepliesTo(r)
               PROVE  x = r
    BY DEF OwnReplyIfApart, ReplyIsOwn
  <2>1. x \in Sent /\ r \in Created /\ seq_num[r] = NumberOf(x)
    BY DEF ConfigInv, ToldInv
  <2>2. seq_num[r] = NumberOf(r)
    BY DEF NumberOf
  <2> QED
    BY <2>1, <2>2 DEF NumbersApart, Sent, Created
<1> QED
  BY <1>1, ConfigInvariance, PTL

\* A set whose callback got its own reply was carried out
\* (bcmp_config.cpp:211-230), although the reply may have met the expiry.
THEOREM ConfirmedSetsAreDone == ConfigSpec => []ConfirmedIsDone
<1>1. ConfigInv => ConfirmedIsDone
  BY DEF ConfigInv, ToldInv, ConfirmedIsDone, Done
<1> QED
  BY <1>1, ConfigInvariance, PTL

(***************************************************************************)
(* The partition of the server                                             *)
(***************************************************************************)
\* Whatever comes over the bus, the partition goes through steps of the
\* store and no others.
THEOREM BusUsesTheStore == ConfigSpec => Store!Spec
<1>1. ConfigInit => Store!Init /\ ask \in Ask
  BY DEF ConfigInit
<1>2. ConfigInv /\ ask \in Ask /\ [ConfigNext]_allVars => [Store!Next]_(Store!vars)
  <2> SUFFICES ASSUME ConfigInv, ask \in Ask, [ConfigNext]_allVars
               PROVE  [Store!Next]_(Store!vars)
    OBVIOUS
  <2>1. UNCHANGED store => UNCHANGED Store!vars
    BY DEF store, Store!vars
  <2>2. ASSUME NEW f \in net, Serve(f) PROVE Store!Next \/ UNCHANGED store
    <3>1. f \in Frame /\ f.id # Commit /\ f.kind = "query"
      BY <2>2, ServedAsTold DEF ConfigInv, NetInv
    <3>2. f.id \in Request \cup Other
      BY <3>1 DEF Frame
    <3>3. ask[f.id].key \in Key /\ ask[f.id].value \in Value
      BY <3>2, AskAssumption
    <3> QED
      BY <2>2, <3>3 DEF Serve, ServeGet, ServeSet, ServeDelete, ServeStatus, Store!Next
  <2>3. CASE ServeCommit
    BY <2>3 DEF ServeCommit, Store!Next
  <2>4. CASE Local
    BY <2>4 DEF Local, Store!Next
  <2>5. CASE UNCHANGED store
    BY <2>1, <2>5
  <2>6. ASSUME NEW f \in net, Pass(f) \/ Receive(f) \/ Lose(f) PROVE UNCHANGED store
    BY <2>6 DEF Pass, Receive, Lose
  <2>7. ASSUME NEW r \in Request, Call(r) PROVE UNCHANGED store
    BY <2>7 DEF Call
  <2>8. ASSUME NEW o \in Other, CallOther(o) PROVE UNCHANGED store
    BY <2>8 DEF CallOther
  <2>9. CallCommit \/ Remove \/ End \/ UNCHANGED allVars => UNCHANGED store
    BY DEF CallCommit, Remove, End, allVars
  <2> QED
    BY <2>1, <2>2, <2>3, <2>4, <2>5, <2>6, <2>7, <2>8, <2>9 DEF ConfigNext
<1>3. ask \in Ask /\ [ConfigNext]_allVars => (ask \in Ask)'
  BY DEF ConfigNext, allVars, Call, CallCommit, CallOther, Pass, Receive, Serve, Lose,
         Remove, ServeCommit, Local, End
<1> QED
  BY <1>1, <1>2, <1>3, ConfigInvariance, PTL DEF ConfigSpec, Store!Spec
(***************************************************************************)
(* The theorems about ConfigStore hold for the partition of the server.    *)
(* Their module is instantiated as the model instantiates ConfigStore, so  *)
(* that both have the same definitions, once they are expanded.            *)
(***************************************************************************)
StoreProofs == INSTANCE ConfigStoreProofs

\* What the store takes for granted is granted here.
LEMMA StoreAssumed ==
  /\ StoreProofs!PrefixAssumption /\ StoreProofs!ClipAssumption
  /\ StoreProofs!ValueAssumption /\ StoreProofs!MaxKeysAssumption
BY StoreAssumption
     DEF Store!PrefixAssumption, StoreProofs!PrefixAssumption,
         Store!ClipAssumption, StoreProofs!ClipAssumption,
         Store!ValueAssumption, StoreProofs!ValueAssumption,
         Store!MaxKeysAssumption, StoreProofs!MaxKeysAssumption

\* The two instances start alike.
LEMMA StoreInits == Store!Init => StoreProofs!Init
BY DEF Store!Init, StoreProofs!Init, Store!Erased, StoreProofs!Erased,
         Store!None, StoreProofs!None

\* Every step of one is a step of the other.
LEMMA StoreSteps ==
  [Store!Next]_(Store!vars) => [StoreProofs!Next]_(StoreProofs!vars)
BY DEF Store!Entry, StoreProofs!Entry, Store!None, StoreProofs!None,
         Store!Done, StoreProofs!Done, Store!Matches, StoreProofs!Matches,
         Store!FindKeyIndex, StoreProofs!FindKeyIndex, Store!KeyMissing,
         StoreProofs!KeyMissing, Store!Running, StoreProofs!Running,
         Store!Quiet, StoreProofs!Quiet, Store!SetConfig,
         StoreProofs!SetConfig, Store!SetConfigTooLong,
         StoreProofs!SetConfigTooLong, Store!Copied, StoreProofs!Copied,
         Store!SetConfigCbor, StoreProofs!SetConfigCbor, Store!Without,
         StoreProofs!Without, Store!RemoveKey, StoreProofs!RemoveKey,
         Store!Erased, StoreProofs!Erased, Store!SaveConfig,
         StoreProofs!SaveConfig, Store!PowerOff, StoreProofs!PowerOff,
         Store!SaveDone, StoreProofs!SaveDone, Store!SaveFails,
         StoreProofs!SaveFails, Store!Crash, StoreProofs!Crash, Store!Load,
         StoreProofs!Load, Store!LoadFails, StoreProofs!LoadFails,
         Store!Next, StoreProofs!Next, Store!vars, StoreProofs!vars

\* So they have the same behaviors.
LEMMA StoreSpecs == ConfigSpec => StoreProofs!Spec
BY BusUsesTheStore, StoreInits, StoreSteps, PTL DEF Store!Spec, StoreProofs!Spec

\* Their types are the same.
LEMMA StoreTypes == StoreProofs!TypeOK => Store!TypeOK
BY DEF Store!TypeOK, StoreProofs!TypeOK, Store!None, StoreProofs!None,
         Store!Table, StoreProofs!Table, Store!Slot, StoreProofs!Slot

\* The map starts alike.
LEMMA PromiseInits == StoreProofs!Promise!Init => Store!Promise!Init
BY DEF Store!Promise!Init, StoreProofs!Promise!Init, Store!Promise!Nothing,
         StoreProofs!Promise!Nothing, Store!Promise!None,
         StoreProofs!Promise!None, Store!AsMap, StoreProofs!AsMap,
         Store!Lookup, StoreProofs!Lookup, Store!KeyMissing,
         StoreProofs!KeyMissing, Store!Matches, StoreProofs!Matches,
         Store!FindKeyIndex, StoreProofs!FindKeyIndex, Store!Running,
         StoreProofs!Running

\* Every step of the map in one is a step of the map in the other.
LEMMA PromiseSteps ==
  [StoreProofs!Promise!Next]_(StoreProofs!Promise!vars)
    => [Store!Promise!Next]_(Store!Promise!vars)
BY DEF Store!AsMap, StoreProofs!AsMap, Store!Lookup, StoreProofs!Lookup,
         Store!KeyMissing, StoreProofs!KeyMissing, Store!Matches,
         StoreProofs!Matches, Store!FindKeyIndex, StoreProofs!FindKeyIndex,
         Store!Running, StoreProofs!Running, Store!Promise!Next,
         StoreProofs!Promise!Next, Store!Promise!vars,
         StoreProofs!Promise!vars, Store!Promise!Set,
         StoreProofs!Promise!Set, Store!Promise!Remove,
         StoreProofs!Promise!Remove, Store!Promise!Spoil,
         StoreProofs!Promise!Spoil, Store!Promise!Change,
         StoreProofs!Promise!Change, Store!Promise!BeginSave,
         StoreProofs!Promise!BeginSave, Store!Promise!EndSave,
         StoreProofs!Promise!EndSave, Store!Promise!Restart,
         StoreProofs!Promise!Restart, Store!Promise!Boot,
         StoreProofs!Promise!Boot, Store!Promise!Stop,
         StoreProofs!Promise!Stop, Store!Promise!Nothing,
         StoreProofs!Promise!Nothing, Store!Promise!None,
         StoreProofs!Promise!None, Store!Promise!Done,
         StoreProofs!Promise!Done

\* The other node, the requests, the frames and the server's partition have
\* their types, however many requests, keys and frames there are.
THEOREM ConfigTypes == ConfigSpec => []ConfigTypeOK
<1>1. ConfigInit => busy \in BOOLEAN
  BY DEF ConfigInit
<1>2. busy \in BOOLEAN /\ [ConfigNext]_allVars => (busy \in BOOLEAN)'
  BY DEF ConfigNext, allVars, Call, CallCommit, CallOther, Pass, Receive, Serve, Lose,
         Remove, ServeCommit, Local, End
<1>3. ConfigSpec => []Store!TypeOK
  <2>1. StoreProofs!Spec => []StoreProofs!TypeOK
    BY StoreAssumed, StoreProofs!TypeCorrect
  <2> QED
    BY <2>1, StoreSpecs, StoreTypes, PTL
<1>4. ConfigInv /\ Store!TypeOK /\ busy \in BOOLEAN => ConfigTypeOK
  BY DEF ConfigInv, NetInv, IInv, TypeInv, ConfigTypeOK
<1> QED
  BY <1>1, <1>2, <1>3, <1>4, ConfigInvariance, PTL DEF ConfigSpec

\* Where no key begins with another, the partition of the server remains a
\* map while requests from the bus and local code change and save it, with
\* any number of them, and whatever is lost on the way
\* (bcmp_config.cpp:66-240, configuration.cpp).
THEOREM BusKeepsTheMap ==
  ASSUME StoreProofs!PrefixFree
  PROVE  ConfigSpec => MapPromise
<1>1. StoreProofs!Spec => StoreProofs!MapPromise
  BY StoreAssumed, StoreProofs!StoreIsAMap
<1>2. StoreProofs!MapPromise => Store!MapPromise
  BY PromiseInits, PromiseSteps, PTL
     DEF StoreProofs!MapPromise, Store!MapPromise,
         StoreProofs!Promise!Spec, Store!Promise!Spec
<1> QED
  BY <1>1, <1>2, StoreSpecs, PTL DEF MapPromise
=============================================================================
