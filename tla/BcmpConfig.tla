------------------------------ MODULE BcmpConfig ------------------------------
(***************************************************************************)
(* Configuration over the bus (src/src/lib/bcmp/bcmp_config.cpp): a node   *)
(* asks another one, the server, for changes of its partition, which local *)
(* code of the server changes and saves as well.  The three nodes are in a *)
(* line: the other node, the node with the requests, and the server.  The  *)
(* messages go from neighbor to neighbor, so those between the other node  *)
(* and the server pass through the node in the middle, which matches every *)
(* reply with its own list of requests before it looks whose it is.        *)
(***************************************************************************)
EXTENDS BcmpRequests

CONSTANTS
  Key, Prefix, Clip, Value, Oversized, Torn, Absent, MaxKeys,
  Other,     \* requests of the other node
  Commit,    \* the message that has no number and no reply
  Ask,       \* what the requests may ask for, each of them [op, key, value]
  OtherSeq   \* the numbers of the other node's requests

VARIABLES
  power, ram, needsCommit, flash, saving, image, last, \* of the server
  ask,       \* what each request asks for
  net,       \* frames on their way
  asked,     \* requests of the other node that were sent
  busy,      \* the BCMP thread of the server is in saveConfig
  served     \* history: what the server made of each request

Store == INSTANCE ConfigStore

requests == vars
store == <<power, ram, needsCommit, flash, saving, image, last>>
allVars == <<requests, store, ask, net, asked, busy, served>>

ASSUME StoreAssumption ==
  /\ Store!PrefixAssumption /\ Store!ClipAssumption
  /\ Store!ValueAssumption /\ Store!MaxKeysAssumption

ASSUME ReplyAssumption == Reply = Request \cup Other

ASSUME PartiesAssumption ==
  Request \cap Other = {} /\ Commit \notin Request \cup Other

ASSUME AskAssumption ==
  Ask \subseteq [Request \cup Other ->
                    [op : {"get", "set", "delete", "status"},
                     key : Key, value : Value]]

ASSUME OtherSeqAssumption == OtherSeq \in [Other -> 0..(SeqSpace - 1)]

\* A request on its way to the server, on the link "far" between the other
\* node and this one or the link "near" to the server, and the reply to it.
Query(id, seq, link) ==
  [kind |-> "query", id |-> id, seq |-> seq, link |-> link]
Answer(id, seq) == [kind |-> "answer", id |-> id, seq |-> seq]

Frame ==
  [kind : {"query"}, id : Request \cup Other \cup {Commit},
   seq : 0..(SeqSpace - 1), link : {"near", "far"}]
  \cup [kind : {"answer"}, id : Request \cup Other, seq : 0..(SeqSpace - 1)]

Idle == found = NoElement

(***************************************************************************)
(* The node in the middle                                                  *)
(***************************************************************************)
\* bcmp_config_get, _set, _status_request and bcmp_config_del_key.
Call(r) ==
  /\ \/ Number(r) /\ UNCHANGED net
     \/ /\ Send(r) \/ SendUnlisted(r)
        /\ net' = net \cup {Query(r, seq_num[r], "near")}
  /\ UNCHANGED <<store, ask, asked, busy, served>>

\* bcmp_config_commit
CallCommit ==
  /\ net' = net \cup {Query(Commit, 0, "near")}
  /\ UNCHANGED <<store, requests, ask, asked, busy, served>>

\* A message that is not for this node goes on to the next.
ForwardQuery(f) ==
  /\ f = Query(f.id, f.seq, "far")
  /\ net' = (net \ {f}) \cup {Query(f.id, f.seq, "near")}

\* No request in the list has the number of the reply: it is printed if it is
\* for this node, and goes on if not.
PassAnswer(f) ==
  /\ f = Answer(f.id, f.seq)
  /\ Unmatched(f.seq)
  /\ net' = net \ {f}

Pass(f) ==
  /\ Idle
  /\ f \in net
  /\ ForwardQuery(f) \/ PassAnswer(f)
  /\ UNCHANGED <<store, requests, ask, asked, busy, served>>

\* A reply has the number of a request in the list.
Receive(f) ==
  /\ f \in net
  /\ f = Answer(f.id, f.seq)
  /\ Find(f.seq, f.id)
  /\ net' = net \ {f}
  /\ UNCHANGED <<store, ask, asked, busy, served>>

\* The reply is given to the callback of that request, whosever it is.
Remove ==
  /\ Removal
  /\ UNCHANGED <<store, ask, net, asked, busy, served>>

(***************************************************************************)
(* The other node                                                          *)
(***************************************************************************)
CallOther(o) ==
  /\ o \notin asked
  /\ asked' = asked \cup {o}
  /\ net' = net \cup {Query(o, OtherSeq[o], "far")}
  /\ UNCHANGED <<store, requests, ask, busy, served>>

(***************************************************************************)
(* The server: bcmp_process_config_message                                 *)
(***************************************************************************)
Replied(f, outcome) ==
  /\ net' = (net \ {f}) \cup {Answer(f.id, f.seq)}
  /\ served' = [served EXCEPT ![f.id] = outcome]

Ignored(f) ==
  /\ net' = net \ {f}
  /\ served' = [served EXCEPT ![f.id] = "refused"]

\* bcmp_config_process_config_get_msg: no reply for a key that is not there.
ServeGet(f) ==
  /\ ask[f.id].op = "get"
  /\ \/ ~Store!KeyMissing(ram, ask[f.id].key) /\ Replied(f, "done")
     \/ Store!KeyMissing(ram, ask[f.id].key) /\ Ignored(f)
  /\ UNCHANGED store

\* setConfigCbor has no room, or the value is too long.
Refused(k, v) ==
  v \in Oversized \/ (Store!KeyMissing(ram, k) /\ Len(ram) = MaxKeys)

\* Mutant: the value comes back even if it was not set.
ServeSetAnyway(f) ==
  /\ ask[f.id].op = "set"
  /\ LET k == ask[f.id].key
         v == ask[f.id].value
     IN \/ Store!SetConfigCbor(k, v) /\ Replied(f, "done")
        \/ Refused(k, v) /\ Replied(f, "refused") /\ UNCHANGED store

\* bcmp_config_process_config_set_msg: the value comes back if it was set.
ServeSet(f) ==
  /\ ask[f.id].op = "set"
  /\ LET k == ask[f.id].key
         v == ask[f.id].value
     IN \/ Store!SetConfigCbor(k, v) /\ Replied(f, "done")
        \/ Refused(k, v) /\ Ignored(f) /\ UNCHANGED store

\* bcmp_process_del_request_message: the reply says whether it was there.
ServeDelete(f) ==
  /\ ask[f.id].op = "delete"
  /\ \/ Store!RemoveKey(ask[f.id].key) /\ Replied(f, "done")
     \/ /\ Store!KeyMissing(ram, ask[f.id].key)
        /\ Replied(f, "refused")
        /\ UNCHANGED store

ServeStatus(f) ==
  /\ ask[f.id].op = "status"
  /\ Replied(f, "done")
  /\ UNCHANGED store

Serve(f) ==
  /\ Store!Running
  /\ ~busy
  /\ f \in net
  /\ f.id # Commit /\ f = Query(f.id, f.seq, "near")
  /\ ServeGet(f) \/ ServeSet(f) \/ ServeDelete(f) \/ ServeStatus(f)
  /\ UNCHANGED <<requests, ask, asked, busy>>

\* Mutant: the commit is answered as the other requests are.
ServeCommitAnswered ==
  /\ Store!Running
  /\ ~busy
  /\ Query(Commit, 0, "near") \in net
  /\ Store!SaveConfig("restart")
  /\ net' = (net \ {Query(Commit, 0, "near")}) \cup {Answer(Commit, 0)}
  /\ busy' = TRUE
  /\ UNCHANGED <<requests, ask, asked, served>>

\* bcmp_config_process_commit_msg: the thread stays in saveConfig until the
\* node restarts, or the write fails.
ServeCommit ==
  /\ Store!Running
  /\ ~busy
  /\ Query(Commit, 0, "near") \in net
  /\ Store!SaveConfig("restart")
  /\ net' = net \ {Query(Commit, 0, "near")}
  /\ busy' = TRUE
  /\ UNCHANGED <<requests, ask, asked, served>>

\* Local code of the server saves the table, a save ends, the node restarts.
Local ==
  /\ \/ Store!SaveConfig("stay") \/ Store!SaveDone \/ Store!SaveFails
     \/ Store!Crash \/ Store!Load \/ Store!LoadFails
  /\ busy' = (busy /\ saving' # "no")
  /\ UNCHANGED <<requests, ask, net, asked, served>>

(***************************************************************************)
(* Losses and the expiry                                                   *)
(***************************************************************************)
\* A frame is lost; a reply that nobody waits for is only printed.
Lose(f) ==
  /\ f \in net
  /\ net' = net \ {f}
  /\ UNCHANGED <<store, requests, ask, asked, busy, served>>

\* The expiry of requests on the timer callback thread.
End ==
  /\ Expiry
  /\ UNCHANGED <<store, ask, net, asked, busy, served>>

ConfigInit ==
  /\ Init
  /\ Store!Init
  /\ ask \in Ask
  /\ net = {}
  /\ asked = {}
  /\ busy = FALSE
  /\ served = [r \in Request \cup Other |-> "no"]

ConfigNext ==
  \/ \E r \in Request : Call(r)
  \/ CallCommit
  \/ \E o \in Other : CallOther(o)
  \/ \E f \in net : Pass(f) \/ Receive(f) \/ Serve(f) \/ Lose(f)
  \/ Remove
  \/ ServeCommit
  \/ Local
  \/ End

ConfigSpec == ConfigInit /\ [][ConfigNext]_allVars

(***************************************************************************)
(* Properties                                                              *)
(***************************************************************************)
ConfigTypeOK ==
  /\ TypeOK
  /\ Store!TypeOK
  /\ net \subseteq Frame
  /\ asked \subseteq Other
  /\ busy \in BOOLEAN
  /\ served \in [Request \cup Other -> {"no", "done", "refused"}]

RepliesTo(r) == {told[r][i] : i \in DOMAIN told[r]} \ {Timeout}

\* "Check if this message is a reply to a message we sent": the replies that
\* a callback gets answer its own request.
ReplyIsOwn == \A r \in Request : RepliesTo(r) \subseteq {r}

\* No two requests on the bus have the same number.
NumberOf(r) == IF r \in Request THEN seq_num[r] ELSE OtherSeq[r]
NumbersApart ==
  \A r, s \in {r \in Request : step[r] # "idle"} \cup asked :
    NumberOf(r) = NumberOf(s) => r = s

\* What the numbers are for: where they differ, and no reply meets the expiry
\* of its request, each reply goes to the callback of its own request,
\* however late it is.
OwnReplyIfApart == NumbersApart /\ ~raced => ReplyIsOwn

\* A set whose callback got its own reply was carried out by the server.
ConfirmedIsDone ==
  \A r \in Request :
    r \in RepliesTo(r) =>
      /\ served[r] # "no"
      /\ ask[r].op = "set" => served[r] = "done"

\* The store keeps its promise while it is changed over the bus as well.
MapPromise == Store!MapPromise
=============================================================================
