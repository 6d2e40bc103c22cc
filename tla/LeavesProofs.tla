---------------------------- MODULE LeavesProofs ----------------------------
(***************************************************************************)
(* Proofs about three of the components of MCLeaves, each a specification  *)
(* of its own, for any numbers:                                            *)
(*                                                                         *)
(*  - AccessGate, any senders, chats and workers: who is admitted is what  *)
(*    the operator and the first binding of the chat have decided, and a   *)
(*    chat stays its actor's;                                              *)
(*  - BlobStore (B), any calls, documents, sizes and budget: what is       *)
(*    stored is whole, what is returned verifies, staging is swept;        *)
(*  - RateLimiter (R), any chats, gap, pauses and backoff, and a clock     *)
(*    that steps back: no call passes early, none is put off for nothing.  *)
(***************************************************************************)
EXTENDS MCLeaves, Integers, Sequences, TLAPS

-----------------------------------------------------------------------------
(* The access gate *)

AtWork(w) == pc[w] \notin {"down", "idle"}

\* No worker runs before the owner's row is there, so no restart of another one
\* changes what a check has read.
OwnerIsKnown == \A w \in Worker : pc[w] # "down" => identity[Owner] # "absent"

\* An enabled row that a check is still to read was enabled since the check began;
\* one that it has read need not be enabled any more.
ChecksAreFresh ==
  \A w \in Worker : AtWork(w) =>
    /\ IsEnabled(identity[sender[w]]) \/ pc[w] # "identity" => allowed[w].sender
    /\ MayEnter(chat[venue[w]]) \/ pc[w] \in {"insert_binding", "read_owner", "commit"}
         => allowed[w].venue
    /\ pc[w] # "identity" => venue[w] \in Private
    /\ pc[w] \notin {"identity", "insert_chat"} => chat[venue[w]] # "absent"

\* Past its insert a transaction has the chat's row, or the chat has an actor; at
\* its commit that is the sender.
BindingsAreHeld ==
  \A w \in Worker :
    /\ pc[w] = "read_owner" => inserted[venue[w]] = w \/ owner[venue[w]] # Nobody
    /\ pc[w] = "commit" => Sees(w) = sender[w]

\* What is inserted is not yet anybody's.
InsertedIsFree == \A c \in Chat : inserted[c] # Nobody => owner[c] = Nobody

IInv == /\ AccessIsAsDecided
        /\ OwnerIsKnown
        /\ ChecksAreFresh
        /\ BindingsAreHeld
        /\ InsertedIsFree

-----------------------------------------------------------------------------
LEMMA InitInv == Init => IInv
<1> SUFFICES ASSUME Init PROVE IInv
  OBVIOUS
<1> USE GateAssumption DEF Init
<1>1. TypeOK
  BY DEF TypeOK, Row, Access, Stage
<1>2. /\ OperatorDecides /\ DisabledIsRefused /\ AdmittedOwnsTheChat
      /\ BoundHasPolicy /\ ReplaysAreAdmitted
  BY DEF OperatorDecides, DisabledIsRefused, AdmittedOwnsTheChat, BoundHasPolicy,
         ReplaysAreAdmitted
<1>3. OwnerIsKnown /\ ChecksAreFresh /\ BindingsAreHeld /\ InsertedIsFree
  BY DEF OwnerIsKnown, ChecksAreFresh, BindingsAreHeld, InsertedIsFree, AtWork
<1> QED
  BY <1>1, <1>2, <1>3 DEF IInv, AccessIsAsDecided

Verdict == {"none", "admitted", "denied", "failed", "error"}

\* Where the workers and their transactions stand.
WorkersTyped ==
  /\ inserted \in [Chat -> Worker \cup {Nobody}]
  /\ \A c \in Chat : inserted[c] # Nobody =>
       venue[inserted[c]] = c /\ pc[inserted[c]] \in {"read_owner", "commit"}
  /\ pc \in [Worker -> Stage] /\ sender \in [Worker -> Sender] /\ venue \in [Worker -> Chat]
  /\ verdict \in [Worker -> Verdict]

\* A worker that concludes has no transaction left, and the others keep theirs.
LEMMA Concluded ==
  ASSUME TypeOK, NEW w \in Worker, NEW v \in Verdict, Conclude(w, v)
  PROVE  WorkersTyped'
<1> USE DEF TypeOK, WorkersTyped, Verdict, Stage
<1>1. inserted' = [c \in Chat |-> IF inserted[c] = w THEN Nobody ELSE inserted[c]]
  BY DEF Conclude, Released
<1>2. /\ pc' = [pc EXCEPT ![w] = "idle"] /\ verdict' = [verdict EXCEPT ![w] = v]
      /\ UNCHANGED <<sender, venue>>
  BY DEF Conclude
<1> QED
  BY <1>1, <1>2

\* A step to another stage, short of the transaction's first.
LEMMA Moved ==
  ASSUME WorkersTyped, NEW w \in Worker, NEW stage \in Stage, To(w, stage), inserted' = inserted,
         pc[w] \in {"read_owner", "commit"} => stage \in {"read_owner", "commit"}
  PROVE  WorkersTyped'
  BY DEF WorkersTyped, To

LEMMA Enabled ==
  ASSUME NEW r \in [sender : BOOLEAN, venue : BOOLEAN]
  PROVE  /\ [r EXCEPT !.sender = TRUE] \in [sender : BOOLEAN, venue : BOOLEAN]
         /\ [r EXCEPT !.sender = TRUE].sender = TRUE
         /\ [r EXCEPT !.sender = TRUE].venue = r.venue
         /\ [r EXCEPT !.venue = TRUE] \in [sender : BOOLEAN, venue : BOOLEAN]
         /\ [r EXCEPT !.venue = TRUE].venue = TRUE
         /\ [r EXCEPT !.venue = TRUE].sender = r.sender
  OBVIOUS

LEMMA StepInv == IInv /\ [Next]_vars => IInv'
<1> SUFFICES ASSUME IInv, [Next]_vars PROVE IInv'
  OBVIOUS
<1> USE GateAssumption
    DEF IInv, AccessIsAsDecided, TypeOK, OperatorDecides, DisabledIsRefused, AdmittedOwnsTheChat,
        BoundHasPolicy, ReplaysAreAdmitted, OwnerIsKnown, ChecksAreFresh, BindingsAreHeld,
        InsertedIsFree, AtWork, IsEnabled, MayEnter, Sees, Row, Access, Stage, rows, workerVars
<1>1. ASSUME NEW w \in Worker, Boot(w) PROVE IInv'
  BY <1>1 DEF Boot, Ensured
<1>2. ASSUME NEW w \in Worker, NEW s \in Sender, NEW c \in Chat, Start(w, s, c) PROVE IInv'
  <2>1. TypeOK'
    BY <1>2 DEF Start
  <2>2. OperatorDecides' /\ OwnerIsKnown'
    BY <1>2 DEF Start
  <2>3. DisabledIsRefused' /\ ChecksAreFresh'
    <3>1. /\ allowed'[w].sender <=> IsEnabled(identity[s])
          /\ allowed'[w].venue <=> MayEnter(chat[c])
          /\ \A v \in Worker \ {w} : allowed'[v] = allowed[v]
      <4> DEFINE r == [sender |-> IsEnabled(identity[s]), venue |-> MayEnter(chat[c])]
      <4> HIDE DEF IsEnabled, MayEnter
      <4>1. allowed' = [allowed EXCEPT ![w] = r] /\ w \in DOMAIN allowed
        BY <1>2 DEF Start
      <4>2. allowed'[w] = r
        <5> HIDE DEF r
        <5> QED
          BY <4>1
      <4>3. (r.sender <=> IsEnabled(identity[s])) /\ (r.venue <=> MayEnter(chat[c]))
        BY Zenon
      <4>4. \A v \in Worker \ {w} : allowed'[v] = allowed[v]
        <5> HIDE DEF r
        <5> QED
          BY <4>1
      <4> QED
        <5> HIDE DEF r
        <5> QED
          BY <4>2, <4>3, <4>4
    <3>2. /\ pc' = [pc EXCEPT ![w] = "identity"] /\ verdict' = [verdict EXCEPT ![w] = "none"]
          /\ sender' = [sender EXCEPT ![w] = s] /\ venue' = [venue EXCEPT ![w] = c]
          /\ UNCHANGED <<identity, chat>>
      BY <1>2 DEF Start
    <3> QED
      BY <3>1, <3>2
  <2>4. AdmittedOwnsTheChat' /\ BoundHasPolicy' /\ ReplaysAreAdmitted'
    BY <1>2 DEF Start
  <2>5. BindingsAreHeld' /\ InsertedIsFree'
    BY <1>2 DEF Start
  <2> QED
    BY <2>1, <2>2, <2>3, <2>4, <2>5
<1>3. ASSUME NEW w \in Worker, ReadIdentity(w) PROVE IInv'
  <2>0. WorkersTyped
    BY DEF WorkersTyped, Verdict
  <2>1. TypeOK'
    <3>1. CASE IsEnabled(identity[sender[w]]) /\ venue[w] \in Private
      <4>1. To(w, "insert_chat") /\ inserted' = inserted
        BY <1>3, <3>1 DEF ReadIdentity
      <4>2. WorkersTyped'
        BY <1>3, <2>0, <4>1, Moved DEF ReadIdentity
      <4> QED
        BY <1>3, <4>2 DEF ReadIdentity, WorkersTyped, Verdict
    <3>2. CASE ~(IsEnabled(identity[sender[w]]) /\ venue[w] \in Private)
      BY <1>3, <3>2, Concluded DEF ReadIdentity, WorkersTyped, Verdict
    <3> QED
      BY <3>1, <3>2
  <2>2. OperatorDecides' /\ OwnerIsKnown'
    BY <1>3 DEF ReadIdentity, To, Conclude, Released
  <2>3. DisabledIsRefused' /\ ChecksAreFresh'
    BY <1>3 DEF ReadIdentity, To, Conclude, Released
  <2>4. AdmittedOwnsTheChat' /\ BoundHasPolicy' /\ ReplaysAreAdmitted'
    BY <1>3 DEF ReadIdentity, To, Conclude, Released
  <2>5. BindingsAreHeld' /\ InsertedIsFree'
    BY <1>3 DEF ReadIdentity, To, Conclude, Released
  <2> QED
    BY <2>1, <2>2, <2>3, <2>4, <2>5
<1>4. ASSUME NEW w \in Worker, InsertChat(w) PROVE IInv'
  BY <1>4 DEF InsertChat, To, Ensured
<1>5. ASSUME NEW w \in Worker, ReadChat(w) PROVE IInv'
  <2>0. WorkersTyped
    BY DEF WorkersTyped, Verdict
  <2>1. TypeOK'
    <3>1. CASE IsEnabled(chat[venue[w]])
      <4>1. To(w, "insert_binding") /\ inserted' = inserted
        BY <1>5, <3>1 DEF ReadChat
      <4>2. WorkersTyped'
        BY <1>5, <2>0, <4>1, Moved DEF ReadChat
      <4> QED
        BY <1>5, <4>2 DEF ReadChat, WorkersTyped, Verdict
    <3>2. CASE ~(IsEnabled(chat[venue[w]]))
      BY <1>5, <3>2, Concluded DEF ReadChat, WorkersTyped, Verdict
    <3> QED
      BY <3>1, <3>2
  <2>2. OperatorDecides' /\ OwnerIsKnown'
    BY <1>5 DEF ReadChat, To, Conclude, Released
  <2>3. DisabledIsRefused' /\ ChecksAreFresh'
    BY <1>5 DEF ReadChat, To, Conclude, Released
  <2>4. AdmittedOwnsTheChat' /\ BoundHasPolicy' /\ ReplaysAreAdmitted'
    BY <1>5 DEF ReadChat, To, Conclude, Released
  <2>5. BindingsAreHeld' /\ InsertedIsFree'
    BY <1>5 DEF ReadChat, To, Conclude, Released
  <2> QED
    BY <2>1, <2>2, <2>3, <2>4, <2>5
<1>6. ASSUME NEW w \in Worker, InsertBinding(w) PROVE IInv'
  BY <1>6 DEF InsertBinding, To
<1>7. ASSUME NEW w \in Worker, ReadOwner(w) PROVE IInv'
  <2>0. WorkersTyped
    BY DEF WorkersTyped, Verdict
  <2>1. TypeOK'
    <3>1. CASE Sees(w) = sender[w]
      <4>1. To(w, "commit") /\ inserted' = inserted
        BY <1>7, <3>1 DEF ReadOwner
      <4>2. WorkersTyped'
        BY <1>7, <2>0, <4>1, Moved DEF ReadOwner
      <4> QED
        BY <1>7, <4>2 DEF ReadOwner, WorkersTyped, Verdict
    <3>2. CASE ~(Sees(w) = sender[w])
      BY <1>7, <3>2, Concluded DEF ReadOwner, WorkersTyped, Verdict
    <3> QED
      BY <3>1, <3>2
  <2>2. OperatorDecides' /\ OwnerIsKnown'
    BY <1>7 DEF ReadOwner, To, Conclude, Released
  <2>3. DisabledIsRefused' /\ ChecksAreFresh'
    <3>1. CASE Sees(w) = sender[w]
      BY <1>7, <3>1 DEF ReadOwner, To
    <3>2. CASE Sees(w) # sender[w]
      BY <1>7, <3>2 DEF ReadOwner, Conclude
    <3> QED
      BY <3>1, <3>2
  <2>4. AdmittedOwnsTheChat' /\ BoundHasPolicy' /\ ReplaysAreAdmitted'
    BY <1>7 DEF ReadOwner, To, Conclude, Released
  <2>5. BindingsAreHeld' /\ InsertedIsFree'
    BY <1>7 DEF ReadOwner, To, Conclude, Released
  <2> QED
    BY <2>1, <2>2, <2>3, <2>4, <2>5
<1>8. ASSUME NEW w \in Worker, Commit(w) PROVE IInv'
  BY <1>8 DEF Commit, Conclude, Released, Published
<1>9. ASSUME NEW w \in Worker, Fails(w) PROVE IInv'
  BY <1>9 DEF Fails, Conclude, Released, Published
<1>10. ASSUME NEW w \in Worker, Crash(w) PROVE IInv'
  BY <1>10 DEF Crash, Released
<1>11. ASSUME NEW s \in Sender, NEW a \in Access, SetIdentity(s, a) PROVE IInv'
  <2>1. TypeOK'
    <3>1. allowed' \in [Worker -> [sender : BOOLEAN, venue : BOOLEAN]]
      <4>1. \A w \in Worker : [allowed[w] EXCEPT !.sender = TRUE] \in [sender : BOOLEAN, venue : BOOLEAN]
        BY Enabled
      <4>2. allowed' = [w \in Worker |-> IF sender[w] = s /\ IsEnabled(a)
                                         THEN [allowed[w] EXCEPT !.sender = TRUE] ELSE allowed[w]]
        BY <1>11 DEF SetIdentity
      <4> QED
        BY <4>1, <4>2, Zenon
    <3> QED
      BY <1>11, <3>1 DEF SetIdentity
  <2>2. OperatorDecides' /\ OwnerIsKnown'
    BY <1>11 DEF SetIdentity
  <2>3. DisabledIsRefused' /\ ChecksAreFresh'
    BY <1>11 DEF SetIdentity
  <2>4. AdmittedOwnsTheChat' /\ BoundHasPolicy' /\ ReplaysAreAdmitted'
    BY <1>11 DEF SetIdentity
  <2>5. BindingsAreHeld' /\ InsertedIsFree'
    BY <1>11 DEF SetIdentity
  <2> QED
    BY <2>1, <2>2, <2>3, <2>4, <2>5
<1>12. ASSUME NEW c \in Chat, NEW a \in Access, SetChat(c, a) PROVE IInv'
  <2>1. TypeOK'
    <3>1. allowed' \in [Worker -> [sender : BOOLEAN, venue : BOOLEAN]]
      <4>1. \A w \in Worker : [allowed[w] EXCEPT !.venue = TRUE] \in [sender : BOOLEAN, venue : BOOLEAN]
        BY Enabled
      <4>2. allowed' = [w \in Worker |-> IF venue[w] = c /\ MayEnter(a)
                                         THEN [allowed[w] EXCEPT !.venue = TRUE] ELSE allowed[w]]
        BY <1>12 DEF SetChat
      <4> QED
        BY <4>1, <4>2, Zenon
    <3> QED
      BY <1>12, <3>1 DEF SetChat
  <2>2. OperatorDecides' /\ OwnerIsKnown'
    BY <1>12 DEF SetChat
  <2>3. DisabledIsRefused' /\ ChecksAreFresh'
    BY <1>12 DEF SetChat
  <2>4. AdmittedOwnsTheChat' /\ BoundHasPolicy' /\ ReplaysAreAdmitted'
    BY <1>12 DEF SetChat
  <2>5. BindingsAreHeld' /\ InsertedIsFree'
    BY <1>12 DEF SetChat
  <2> QED
    BY <2>1, <2>2, <2>3, <2>4, <2>5
<1>13. CASE UNCHANGED vars
  BY <1>13 DEF vars
<1> HIDE DEF IInv
<1> QED
  BY <1>1, <1>2, <1>3, <1>4, <1>5, <1>6, <1>7, <1>8, <1>9, <1>10, <1>11, <1>12, <1>13
  DEF Next, Step

\* The inductive invariant of the gate: between the statements of a check nothing it
\* relies on is lost (authorize, ensure_chat, bind_private_chat).
THEOREM Invariance == Spec => []IInv
  BY InitInv, StepInv, PTL DEF Spec

\* Whatever races, replays, fails or restarts, who is admitted is what the operator
\* and the first binding of the chat have decided (authorize, bind_private_chat).
THEOREM Decided == Spec => []AccessIsAsDecided
<1>1. IInv => AccessIsAsDecided
  BY DEF IInv
<1> QED
  BY <1>1, Invariance, PTL

\* However many actors and replays race for a chat, its first actor keeps it
\* (bind_private_chat).
THEOREM StaysBound == Spec => ChatStaysBound
<1>1. IInv /\ [Next]_vars => [\A c \in Chat : owner[c] # Nobody => owner'[c] = owner[c]]_vars
  <2> SUFFICES ASSUME IInv, [Next]_vars
               PROVE  \A c \in Chat : owner[c] # Nobody => owner'[c] = owner[c]
    OBVIOUS
  <2>1. /\ owner \in [Chat -> Sender \cup {Nobody}] /\ venue \in [Worker -> Chat]
        /\ \A c \in Chat : inserted[c] # Nobody => owner[c] = Nobody
    BY DEF IInv, AccessIsAsDecided, TypeOK, InsertedIsFree
  <2>2. ASSUME NEW w \in Worker, Published(w)
        PROVE  \A c \in Chat : owner[c] # Nobody => owner'[c] = owner[c]
    BY <2>1, <2>2, GateAssumption DEF Published
  <2>3. \/ UNCHANGED owner
        \/ \E w \in Worker : Published(w)
    BY DEF Next, Step, vars, rows, Boot, Start, ReadIdentity, InsertChat, ReadChat, InsertBinding,
           ReadOwner, Commit, Fails, Crash, SetIdentity, SetChat
  <2> QED
    BY <2>2, <2>3
<1> QED
  BY <1>1, Invariance, PTL DEF Spec, ChatStaysBound

-----------------------------------------------------------------------------
(* The attachment store (B) *)

Whole(c) == copied[c] = Size[source[c]]

\* A name that is taken leads to a whole file of the bytes it names, which its writer
\* has done with.
NamesAreWhole ==
  \A k \in B!Digest : content[k] # Nobody =>
    B!Bytes(content[k]) = k /\ Whole(content[k]) /\ storePc[content[k]] \notin {"idle", "copy"}

\* Past its copy a call has the whole document, and past its publication the name is
\* taken.
CallsAreWhole ==
  \A c \in Worker :
    /\ storePc[c] \in {"look", "link", "unstage", "rename", "meta", "fill", "done"} => Whole(c)
    /\ storePc[c] \in {"unstage", "meta", "fill", "done"} => content[B!Bytes(c)] # Nobody
    /\ storePc[c] \in {"idle", "meta", "fill", "done", "failed"} => c \notin staging \/ c \in stuck

\* Bytes whose sidecar is not written are a call's that is to write it or was cut.
SidecarIsDue ==
  \A k \in B!Digest : content[k] # Nobody /\ meta[k] # "whole" =>
    \E c \in Worker : B!Bytes(c) = k /\ storePc[c] \in {"unstage", "meta", "fill", "cut"}

StoreInv == B!TypeOK /\ NamesAreWhole /\ CallsAreWhole /\ SidecarIsDue

-----------------------------------------------------------------------------
\* Every call's file has a digest.
LEMMA BytesTyped ==
  ASSUME B!TypeOK, NEW c \in Worker
  PROVE  /\ B!Bytes(c) \in B!Digest
         /\ B!Bytes(c).doc = source[c] /\ B!Bytes(c).n = copied[c]
<1>1. source[c] \in Document /\ copied[c] \in 0..Budget
  BY DEF B!TypeOK
<1> QED
  BY <1>1 DEF B!Bytes, B!Digest

\* Nobody has stored anything when the process starts.
LEMMA StoreInit == B!Init => StoreInv
<1> SUFFICES ASSUME B!Init PROVE StoreInv
  OBVIOUS
<1> USE LeavesAssumption DEF B!Init, B!StoreAssumption
<1>1. B!TypeOK
  BY DEF B!TypeOK, B!Stage, B!Sidecar
<1>2. NamesAreWhole /\ CallsAreWhole /\ SidecarIsDue
  BY DEF NamesAreWhole, CallsAreWhole, SidecarIsDue
<1> QED
  BY <1>1, <1>2 DEF StoreInv

\* A step keeps the types.
LEMMA StoreTyped ==
  ASSUME B!TypeOK, B!Next
  PROVE  B!TypeOK'
<1> USE LeavesAssumption DEF B!StoreAssumption, B!TypeOK
<1>1. PICK c \in Worker : B!Step(c)
  BY DEF B!Next
<1>b. B!Bytes(c) \in B!Digest
  BY BytesTyped
<1>2. storePc' \in [Worker -> B!Stage]
  BY <1>1 DEF B!Step, B!Goto, B!Drop, B!Stage, B!fileVars, B!Begin, B!CopyChunk, B!BreakSource,
     B!EndSource, B!Look, B!Link, B!Unstage, B!Rename, B!OpenMeta, B!FillMeta, B!Cut
<1>3. source' = source /\ copied' \in [Worker -> 0..Budget]
  <2>1. CASE B!CopyChunk(c)
    BY <2>1 DEF B!CopyChunk, B!Drop, B!fileVars
  <2>2. CASE ~B!CopyChunk(c)
    BY <2>2, <1>1 DEF B!Step, B!Drop, B!fileVars, B!Begin, B!BreakSource,
       B!EndSource, B!Look, B!Link, B!Unstage, B!Rename, B!OpenMeta, B!FillMeta, B!Cut
  <2> QED
    BY <2>1, <2>2
<1>4. staging' \subseteq Worker /\ stuck' \subseteq Worker
  BY <1>1 DEF B!Step, B!Drop, B!Remove, B!fileVars, B!Begin, B!CopyChunk, B!BreakSource,
     B!EndSource, B!Look, B!Link, B!Unstage, B!Rename, B!OpenMeta, B!FillMeta, B!Cut
<1>5. content' \in [B!Digest -> Worker \cup {Nobody}]
  BY <1>1, <1>b DEF B!Step, B!Drop, B!fileVars, B!Begin, B!CopyChunk, B!BreakSource,
     B!EndSource, B!Look, B!Link, B!Unstage, B!Rename, B!OpenMeta, B!FillMeta, B!Cut
<1>6. meta' \in [B!Digest -> B!Sidecar]
  BY <1>1, <1>b DEF B!Step, B!Drop, B!fileVars, B!Begin, B!CopyChunk, B!BreakSource, B!Sidecar,
     B!EndSource, B!Look, B!Link, B!Unstage, B!Rename, B!OpenMeta, B!FillMeta, B!Cut
<1>7. storeFaults' \in 0..StoreFaults
  BY <1>1 DEF B!Step, B!Drop, B!fileVars, B!Begin, B!CopyChunk, B!BreakSource,
     B!EndSource, B!Look, B!Link, B!Unstage, B!Rename, B!OpenMeta, B!FillMeta, B!Cut
<1> QED
  BY <1>2, <1>3, <1>4, <1>5, <1>6, <1>7

\* A step of a call that touches no file but its staging name.
LEMMA StageMoves ==
  ASSUME StoreInv, NEW c \in Worker, NEW s \in B!Stage,
         storePc' = [storePc EXCEPT ![c] = s], staging' \in {staging, staging \ {c}, staging \cup {c}},
         UNCHANGED <<source, copied, content, meta>>, stuck \subseteq stuck',
         s \notin {"idle", "copy"} \/ (storePc[c] = "idle" /\ s = "copy"),
         s \in {"look", "link", "unstage", "rename", "meta", "fill", "done"} => Whole(c),
         s \in {"unstage", "meta", "fill", "done"} => content[B!Bytes(c)] # Nobody,
         s \in {"meta", "fill", "done", "failed"} => c \notin staging' \/ c \in stuck',
         storePc[c] \in {"unstage", "meta", "fill", "cut"} => s \in {"unstage", "meta", "fill", "cut"}
  PROVE  NamesAreWhole' /\ CallsAreWhole' /\ SidecarIsDue'
<1> USE LeavesAssumption DEF B!StoreAssumption, GateAssumption
<1>1. /\ storePc'[c] = s /\ \A d \in Worker : d # c => storePc'[d] = storePc[d]
      /\ \A d \in Worker : d # c => (d \in staging' <=> d \in staging)
  BY DEF StoreInv, B!TypeOK
<1>2. \A d \in Worker : B!Bytes(d)' = B!Bytes(d) /\ (Whole(d)' <=> Whole(d))
  BY DEF B!Bytes, Whole
<1>3. \A k \in B!Digest : content[k] # Nobody => content[k] \in Worker
  BY DEF StoreInv, B!TypeOK
<1>4. NamesAreWhole'
  BY <1>1, <1>2, <1>3 DEF StoreInv, NamesAreWhole, B!Bytes, Whole
<1>5. CallsAreWhole'
  BY <1>1, <1>2 DEF StoreInv, CallsAreWhole, B!Bytes
<1>6. SidecarIsDue'
  <2> SUFFICES ASSUME NEW k \in B!Digest, content[k] # Nobody, meta[k] # "whole"
               PROVE  \E d \in Worker : B!Bytes(d)' = k /\ storePc'[d] \in {"unstage", "meta", "fill", "cut"}
    BY DEF SidecarIsDue, B!Digest
  <2>1. PICK d \in Worker : B!Bytes(d) = k /\ storePc[d] \in {"unstage", "meta", "fill", "cut"}
    BY DEF StoreInv, SidecarIsDue
  <2> QED
    BY <2>1, <1>1, <1>2
<1> QED
  BY <1>4, <1>5, <1>6

\* A call that still copies has no name, so the file under a name does not change.
LEMMA CopyKeeps ==
  ASSUME StoreInv, NEW c \in Worker, B!CopyChunk(c), copied[c] + 1 <= Budget
  PROVE  NamesAreWhole' /\ CallsAreWhole' /\ SidecarIsDue'
<1> USE LeavesAssumption DEF B!StoreAssumption
<1>0. /\ storePc[c] = "copy" /\ copied[c] < Size[source[c]]
      /\ copied' = [copied EXCEPT ![c] = copied[c] + 1]
      /\ UNCHANGED <<storePc, source, staging, stuck, content, meta>>
  BY DEF B!CopyChunk, B!fileVars, StoreInv, B!TypeOK
<1>1. \A d \in Worker : d # c => B!Bytes(d)' = B!Bytes(d) /\ (Whole(d)' <=> Whole(d))
  BY <1>0 DEF B!Bytes, Whole, StoreInv, B!TypeOK
<1>2. \A k \in B!Digest : content[k] # Nobody => content[k] \in Worker /\ content[k] # c
  BY <1>0 DEF StoreInv, B!TypeOK, NamesAreWhole
<1>3. NamesAreWhole'
  BY <1>0, <1>1, <1>2 DEF StoreInv, NamesAreWhole, B!Bytes, Whole
<1>4. CallsAreWhole'
  BY <1>0, <1>1 DEF StoreInv, CallsAreWhole
<1>5. SidecarIsDue'
  <2> SUFFICES ASSUME NEW k \in B!Digest, content[k] # Nobody, meta[k] # "whole"
               PROVE  \E d \in Worker : B!Bytes(d)' = k /\ storePc[d] \in {"unstage", "meta", "fill", "cut"}
    BY <1>0 DEF SidecarIsDue, B!Digest
  <2>1. PICK d \in Worker : B!Bytes(d) = k /\ storePc[d] \in {"unstage", "meta", "fill", "cut"}
    BY DEF StoreInv, SidecarIsDue
  <2> QED
    BY <2>1, <1>0, <1>1
<1> QED
  BY <1>3, <1>4, <1>5

\* A whole file takes a name, from nobody or from a file of the same bytes.
LEMMA PublishKeeps ==
  ASSUME StoreInv, NEW c \in Worker, NEW s \in {"unstage", "meta"},
         storePc[c] \in {"link", "rename"}, storePc' = [storePc EXCEPT ![c] = s],
         content' = [content EXCEPT ![B!Bytes(c)] = c],
         staging' = IF s = "meta" THEN staging \ {c} ELSE staging,
         UNCHANGED <<source, copied, meta, stuck>>
  PROVE  NamesAreWhole' /\ CallsAreWhole' /\ SidecarIsDue'
<1> USE LeavesAssumption DEF B!StoreAssumption
<1>0. B!Bytes(c) \in B!Digest /\ Whole(c)
  BY BytesTyped DEF StoreInv, CallsAreWhole
<1>1. storePc'[c] = s /\ \A d \in Worker : d # c => storePc'[d] = storePc[d]
  BY DEF StoreInv, B!TypeOK
<1>2. \A d \in Worker : B!Bytes(d)' = B!Bytes(d) /\ (Whole(d)' <=> Whole(d))
  BY DEF B!Bytes, Whole
<1>3. /\ content'[B!Bytes(c)] = c
      /\ \A k \in B!Digest : k # B!Bytes(c) => content'[k] = content[k]
      /\ \A k \in B!Digest : content[k] # Nobody => content[k] \in Worker
      /\ Nobody \notin Worker
  BY <1>0 DEF StoreInv, B!TypeOK
<1>4. NamesAreWhole'
  <2> SUFFICES ASSUME NEW k \in B!Digest, content'[k] # Nobody
               PROVE  B!Bytes(content[k])' = k /\ Whole(content[k])'
                      /\ storePc'[content'[k]] \notin {"idle", "copy"}
    BY DEF NamesAreWhole, B!Digest
  <2>1. CASE k = B!Bytes(c)
    BY <2>1, <1>0, <1>1, <1>2, <1>3 DEF B!Bytes, Whole
  <2>2. CASE k # B!Bytes(c)
    BY <2>2, <1>1, <1>2, <1>3 DEF StoreInv, NamesAreWhole, B!Bytes, Whole
  <2> QED
    BY <2>1, <2>2
<1>5. CallsAreWhole'
  <2> SUFFICES ASSUME NEW d \in Worker
               PROVE  /\ storePc'[d] \in {"look", "link", "unstage", "rename", "meta", "fill", "done"}
                           => Whole(d)
                      /\ storePc'[d] \in {"unstage", "meta", "fill", "done"}
                           => content'[B!Bytes(d)] # Nobody
                      /\ storePc'[d] \in {"idle", "meta", "fill", "done", "failed"}
                           => d \notin staging' \/ d \in stuck
    BY <1>2 DEF CallsAreWhole
  <2>1. B!Bytes(d) \in B!Digest
    BY BytesTyped DEF StoreInv
  <2>2. CASE d = c
    BY <2>2, <1>0, <1>1, <1>3
  <2>3. CASE d # c
    BY <2>1, <2>3, <1>1, <1>3 DEF StoreInv, CallsAreWhole
  <2> QED
    BY <2>2, <2>3
<1>6. SidecarIsDue'
  <2> SUFFICES ASSUME NEW k \in B!Digest, content'[k] # Nobody, meta[k] # "whole"
               PROVE  \E d \in Worker : B!Bytes(d) = k /\ storePc'[d] \in {"unstage", "meta", "fill", "cut"}
    BY <1>2 DEF SidecarIsDue, B!Digest
  <2>1. CASE k = B!Bytes(c)
    BY <2>1, <1>1
  <2>2. CASE k # B!Bytes(c)
    <3>1. PICK d \in Worker : B!Bytes(d) = k /\ storePc[d] \in {"unstage", "meta", "fill", "cut"}
      BY <2>2, <1>3 DEF StoreInv, SidecarIsDue
    <3> QED
      BY <3>1, <1>1
  <2> QED
    BY <2>1, <2>2
<1> QED
  BY <1>4, <1>5, <1>6

\* The sidecar is truncated and written by a call that has published.
LEMMA MetaKeeps ==
  ASSUME StoreInv, NEW c \in Worker, B!OpenMeta(c) \/ B!FillMeta(c)
  PROVE  NamesAreWhole' /\ CallsAreWhole' /\ SidecarIsDue'
<1> USE LeavesAssumption DEF B!StoreAssumption
<1>0. B!Bytes(c) \in B!Digest
  BY BytesTyped DEF StoreInv
<1>1. /\ \/ storePc[c] = "meta" /\ storePc'[c] = "fill"
         \/ storePc[c] = "fill" /\ storePc'[c] = "done"
      /\ \A d \in Worker : d # c => storePc'[d] = storePc[d]
      /\ UNCHANGED <<source, copied, staging, stuck, content>>
      /\ \A k \in B!Digest : k # B!Bytes(c) => meta'[k] = meta[k]
      /\ meta'[B!Bytes(c)] = IF storePc[c] = "meta" THEN "empty" ELSE "whole"
  <2>1. CASE B!OpenMeta(c)
    BY <2>1, <1>0 DEF B!OpenMeta, B!Goto, StoreInv, B!TypeOK
  <2>2. CASE B!FillMeta(c)
    BY <2>2, <1>0 DEF B!FillMeta, B!Goto, StoreInv, B!TypeOK
  <2> QED
    BY <2>1, <2>2
<1>2. \A d \in Worker : B!Bytes(d)' = B!Bytes(d) /\ (Whole(d)' <=> Whole(d))
  BY <1>1 DEF B!Bytes, Whole
<1>3. \A k \in B!Digest : content[k] # Nobody => content[k] \in Worker
  BY DEF StoreInv, B!TypeOK
<1>4. NamesAreWhole'
  BY <1>1, <1>2, <1>3 DEF StoreInv, NamesAreWhole, B!Bytes, Whole
<1>5. CallsAreWhole'
  BY <1>1, <1>2 DEF StoreInv, CallsAreWhole, B!Bytes
<1>6. SidecarIsDue'
  <2> SUFFICES ASSUME NEW k \in B!Digest, content[k] # Nobody, meta'[k] # "whole"
               PROVE  \E d \in Worker : B!Bytes(d) = k /\ storePc'[d] \in {"unstage", "meta", "fill", "cut"}
    BY <1>1, <1>2 DEF SidecarIsDue, B!Digest
  <2>1. CASE k = B!Bytes(c)
    BY <2>1, <1>1
  <2>2. CASE k # B!Bytes(c)
    <3>1. PICK d \in Worker : B!Bytes(d) = k /\ storePc[d] \in {"unstage", "meta", "fill", "cut"}
      BY <2>2, <1>1 DEF StoreInv, SidecarIsDue
    <3> QED
      BY <3>1, <1>1, <2>2
  <2> QED
    BY <2>1, <2>2
<1> QED
  BY <1>4, <1>5, <1>6

LEMMA StoreStep == StoreInv /\ [B!Next]_(B!vars) => StoreInv'
<1> SUFFICES ASSUME StoreInv, [B!Next]_(B!vars) PROVE StoreInv'
  OBVIOUS
<1> USE LeavesAssumption DEF B!StoreAssumption, B!Stage
<1>1. CASE UNCHANGED B!vars
  <2>1. B!TypeOK'
    BY <1>1 DEF B!vars, B!fileVars, StoreInv, B!TypeOK
  <2>2. NamesAreWhole' /\ CallsAreWhole' /\ SidecarIsDue'
    BY <1>1 DEF B!vars, B!fileVars, StoreInv, NamesAreWhole, CallsAreWhole, SidecarIsDue,
       B!Bytes, Whole, B!Digest
  <2> QED
    BY <2>1, <2>2 DEF StoreInv
<1>2. CASE B!Next
  <2>0. B!TypeOK'
    BY <1>2, StoreTyped DEF StoreInv
  <2> SUFFICES NamesAreWhole' /\ CallsAreWhole' /\ SidecarIsDue'
    BY <2>0 DEF StoreInv
  <2>1. PICK c \in Worker : B!Step(c)
    BY <1>2 DEF B!Next
  <2>k. /\ B!Bytes(c) \in B!Digest
        /\ storePc[c] \in {"idle", "meta", "fill", "done", "failed"} => c \notin staging \/ c \in stuck
        /\ storePc[c] \in {"look", "link", "unstage", "rename", "meta", "fill", "done"} => Whole(c)
        /\ storePc[c] \in {"unstage", "meta", "fill", "done"} => content[B!Bytes(c)] # Nobody
    BY BytesTyped DEF StoreInv, CallsAreWhole
  <2>2. CASE B!Begin(c)
    BY <2>2, StageMoves DEF B!Begin, B!Goto
  <2>3. CASE B!CopyChunk(c)
    <3>1. CASE copied[c] + 1 > Budget
      BY <2>3, <3>1, StageMoves DEF B!CopyChunk, B!Drop, B!Remove, B!Goto
    <3>2. CASE ~(copied[c] + 1 > Budget)
      BY <2>3, <3>2, CopyKeeps DEF StoreInv, B!TypeOK
    <3> QED
      BY <3>1, <3>2
  <2>4. CASE B!BreakSource(c)
    BY <2>4, StageMoves DEF B!BreakSource, B!Drop, B!Remove, B!Goto
  <2>5. CASE B!EndSource(c)
    BY <2>5, StageMoves DEF B!EndSource, B!fileVars, B!Goto, Whole
  <2>6. CASE B!Look(c)
    BY <2>6, <2>k, StageMoves DEF B!Look, B!Remove, B!Goto
  <2>7. CASE B!Link(c)
    <3>1. CASE /\ content' = [content EXCEPT ![B!Bytes(c)] = c]
               /\ storePc' = [storePc EXCEPT ![c] = "unstage"]
      BY <2>7, <3>1, PublishKeeps DEF B!Link
    <3>2. CASE content' = content /\ storePc' = [storePc EXCEPT ![c] = "rename"]
      BY <2>7, <3>2, <2>k, StageMoves DEF B!Link
    <3> QED
      BY <2>7, <3>1, <3>2 DEF B!Link, B!Goto
  <2>8. CASE B!Unstage(c)
    BY <2>8, <2>k, StageMoves DEF B!Unstage, B!Remove, B!Goto
  <2>9. CASE B!Rename(c)
    BY <2>9, PublishKeeps DEF B!Rename, B!Goto
  <2>10. CASE B!OpenMeta(c) \/ B!FillMeta(c)
    BY <2>10, MetaKeeps
  <2>11. CASE B!Cut(c)
    BY <2>11, <2>k, StageMoves DEF B!Cut, B!fileVars, B!Goto
  <2> QED
    BY <2>1, <2>2, <2>3, <2>4, <2>5, <2>6, <2>7, <2>8, <2>9, <2>10, <2>11 DEF B!Step
<1> QED
  BY <1>1, <1>2

\* The inductive invariant of the store: past its copy a file is whole, past its
\* publication its name is taken, and bytes without a sidecar are some call's to finish
\* (store).
THEOREM StoreInvariance == B!Spec => []StoreInv
  BY StoreInit, StoreStep, PTL DEF B!Spec

\* What is stored under a digest is whole, what store returns verifies unless a call of
\* the same bytes was cut, and what store gives up leaves no staging file unless its
\* removal was refused (store, verify).
THEOREM StoreKept == B!Spec => []StoreIsKept
<1>1. StoreInv => StoreIsKept
  <2> SUFFICES ASSUME StoreInv PROVE StoreIsKept
    OBVIOUS
  <2> USE LeavesAssumption, GateAssumption DEF B!StoreAssumption, StoreInv
  <2>0. \A k \in B!Digest : content[k] # Nobody => content[k] \in Worker
    BY DEF B!TypeOK
  <2>1. B!ContentIsWhole
    <3> SUFFICES ASSUME NEW k \in B!Digest, content[k] # Nobody
                 PROVE  /\ B!Bytes(content[k]) = k /\ k.n = Size[k.doc]
                        /\ storePc[content[k]] # "copy"
      BY DEF B!ContentIsWhole
    <3>1. /\ B!Bytes(content[k]) = k /\ copied[content[k]] = Size[source[content[k]]]
          /\ storePc[content[k]] # "copy"
      BY DEF NamesAreWhole, Whole
    <3>2. k.doc = source[content[k]] /\ k.n = copied[content[k]]
      BY <3>1, <2>0, BytesTyped
    <3> QED
      BY <3>1, <3>2
  <2>2. B!ReturnedVerifies
    <3> SUFFICES ASSUME B!Quiet, NEW c \in Worker, storePc[c] = "done"
                 PROVE  B!Verifies(B!Bytes(c)) \/ B!Torn(B!Bytes(c))
      BY DEF B!ReturnedVerifies
    <3>1. B!Bytes(c) \in B!Digest /\ content[B!Bytes(c)] # Nobody
      BY BytesTyped DEF CallsAreWhole
    <3>2. B!Bytes(content[B!Bytes(c)]) = B!Bytes(c)
      BY <3>1 DEF NamesAreWhole
    <3>3. CASE meta[B!Bytes(c)] = "whole"
      BY <3>1, <3>2, <3>3 DEF B!Verifies
    <3>4. CASE meta[B!Bytes(c)] # "whole"
      BY <3>1, <3>4 DEF B!Torn, B!Quiet, SidecarIsDue
    <3> QED
      BY <3>3, <3>4
  <2>3. B!StagingIsSwept
    BY DEF B!StagingIsSwept, CallsAreWhole, B!TypeOK
  <2> QED
    BY <2>1, <2>2, <2>3 DEF StoreIsKept, B!StoreIsKept
<1> QED
  BY <1>1, StoreInvariance, PTL

-----------------------------------------------------------------------------
(* The rate gate (R) *)

\* The job in hand is claimed, has a call only after its claim, and may be tried once
\* more when it waits.
JobsInHand ==
  /\ held # 0 => jobs[held].state = "sending" /\ jobs[held].attempts > 0
  /\ start # R!Never => held # 0
  /\ \A j \in DOMAIN jobs : jobs[j].state = "waiting" => jobs[j].attempts < MaxAttempts

\* The first token is there; each is earned like the calls that passed.
TokenIsEarned ==
  /\ refilled = R!Never => token
  /\ sends + (IF R!Token THEN 1 ELSE 0) <= now + back

\* The clock has not gone further since a call than real time.
ClockIsNotAhead ==
  \A c \in Target :
    /\ spoke[c] = R!Never <=> last[c] = R!Never
    /\ spoke[c] <= now
    /\ spoke[c] # R!Never => R!Clock + spoke[c] <= last[c] + now

\* A pause lasts at least as long by the clock as in real time.
PauseIsWhole ==
  \A c \in Target : asked[c] # 0 => asked[c] + R!Clock <= until[c] + now

\* The call in hand is its chat's last.
CallIsLast ==
  start # R!Never => last[R!ChatHeld] = start /\ spoke[R!ChatHeld] # R!Never

\* Until its first step back the clock shows real time.
ClockIsRight ==
  stepped = R!Never =>
    /\ back = 0 /\ refilled <= R!Clock
    /\ \A c \in Target :
         /\ last[c] = IF spoke[c] = 0 THEN 0 ELSE MaxBack + spoke[c]
         /\ until[c] = IF asked[c] = 0 THEN 0 ELSE MaxBack + asked[c]
    /\ ~R!Token => \E c \in Target : spoke[c] = now

RateInv == /\ R!TypeOK /\ JobsInHand /\ TokenIsEarned /\ ClockIsNotAhead
           /\ PauseIsWhole /\ CallIsLast /\ ClockIsRight

-----------------------------------------------------------------------------
\* Rounding up covers.
LEMMA RoundsUp ==
  ASSUME NEW m \in Nat, NEW n \in Nat \ {0}
  PROVE  /\ R!CeilDiv(m, n) \in Nat /\ R!CeilDiv(m, n) * n >= m
         /\ m > 0 => R!CeilDiv(m, n) > 0
<1> DEFINE q == (m + n - 1) \div n
<1>1. q * n <= m + n - 1
  BY SMT
<1>2. m <= q * n
  BY SMT
<1>3. q \in Nat
  BY SMT
<1> HIDE DEF q
<1>4. m > 0 => q # 0
  BY <1>2
<1> QED
  BY <1>2, <1>3, <1>4 DEF q, R!CeilDiv

\* A longer time is as long in any unit.
LEMMA Scales ==
  ASSUME NEW m \in Int, NEW n \in Int, m <= n, NEW s \in Nat
  PROVE  m * s <= n * s
  BY SMT

\* A job that is replaced by one of the type.
LEMMA JobReplaced ==
  ASSUME jobs \in Seq(R!Job), NEW k \in 1..Len(jobs), NEW r \in R!Job,
         jobs' = [jobs EXCEPT ![k] = r]
  PROVE  /\ jobs' \in Seq(R!Job) /\ Len(jobs') = Len(jobs) /\ jobs'[k] = r
         /\ \A j \in 1..Len(jobs) : j # k => jobs'[j] = jobs[j]
  OBVIOUS

\* What an answer or a denial does to the job in hand.
LEMMA PutsBack ==
  ASSUME RateInv, held # 0, NEW delay \in Nat, R!PutOff(delay)
  PROVE  /\ jobs' \in Seq(R!Job) /\ Len(jobs') = Len(jobs) /\ held' = 0 /\ start' = R!Never
         /\ \A j \in DOMAIN jobs' : jobs'[j].state = "waiting" => jobs'[j].attempts < MaxAttempts
         /\ jobs'[held].state = "waiting" => jobs'[held].due = R!Clock + delay
<1> USE LeavesAssumption DEF R!LimiterAssumption
<1> DEFINE J == jobs[held]
           gone == [J EXCEPT !.state = "failed_permanent"]
           back1 == [J EXCEPT !.state = "waiting"]
           back2 == [back1 EXCEPT !.due = R!Clock + delay]
           r == IF J.attempts >= MaxAttempts THEN gone ELSE back2
<1>1. held \in 1..Len(jobs) /\ J \in R!Job /\ R!Clock \in Nat
  BY DEF RateInv, R!TypeOK, R!Clock
<1>2. jobs' = [jobs EXCEPT ![held] = r] /\ held' = 0 /\ start' = R!Never
  BY <1>1 DEF R!PutOff, R!Never
<1>3. /\ gone \in R!Job /\ gone.state = "failed_permanent"
      /\ back1 \in R!Job /\ back1.state = "waiting" /\ back1.attempts = J.attempts
  BY <1>1 DEF R!Job, R!State
<1> HIDE DEF back1
<1>4. /\ back2 \in R!Job /\ back2.attempts = J.attempts
      /\ back2.due = R!Clock + delay
  <2>1. R!Clock + delay \in Nat
    BY <1>1
  <2> QED
    BY <2>1, <1>3 DEF R!Job
<1> HIDE DEF gone, back2
<1>5. r \in R!Job
  BY <1>3, <1>4
<1>6. r.state = "waiting" => r.attempts < MaxAttempts /\ r.due = R!Clock + delay
  <2>1. CASE J.attempts >= MaxAttempts
    BY <2>1, <1>3
  <2>2. CASE ~(J.attempts >= MaxAttempts)
    <3>1. J.attempts \in Nat
      BY <1>1 DEF R!Job
    <3> QED
      BY <2>2, <3>1, <1>4
  <2> QED
    BY <2>1, <2>2
<1> HIDE DEF r
<1>7. /\ jobs' \in Seq(R!Job) /\ Len(jobs') = Len(jobs) /\ jobs'[held] = r
      /\ \A j \in 1..Len(jobs) : j # held => jobs'[j] = jobs[j]
  BY <1>1, <1>2, <1>5, JobReplaced DEF RateInv, R!TypeOK
<1> QED
  BY <1>2, <1>6, <1>7 DEF RateInv, JobsInHand

-----------------------------------------------------------------------------
\* Numbers of the gate.
LEMMA RateTypes ==
  ASSUME R!TypeOK
  PROVE  /\ now \in Nat \ {0} /\ back \in 0..MaxBack /\ MaxBack \in Nat
         /\ R!Clock \in Nat \ {0} /\ R!Clock \in R!Time
         /\ refilled \in Nat /\ sends \in Nat /\ start \in Nat
         /\ \A c \in Target : last[c] \in Nat /\ until[c] \in Nat /\ spoke[c] \in Nat /\ asked[c] \in Nat
<1> USE LeavesAssumption DEF R!LimiterAssumption, R!TypeOK
<1>1. /\ now \in Nat \ {0} /\ now <= MaxTime /\ back \in 0..MaxBack /\ MaxBack \in Nat
  OBVIOUS
<1>2. R!Clock \in Nat \ {0} /\ R!Clock \in R!Time
  BY <1>1 DEF R!Clock, R!Time
<1>3. refilled \in Nat /\ sends \in Nat /\ start \in Nat
  BY DEF R!Time
<1>4. \A c \in Target : last[c] \in Nat /\ until[c] \in Nat /\ spoke[c] \in Nat /\ asked[c] \in Nat
  BY DEF R!Time
<1> QED
  BY <1>1, <1>2, <1>3, <1>4

\* The job in hand is one of the queue, of a chat.
LEMMA HeldTyped ==
  ASSUME R!TypeOK, held # 0
  PROVE  held \in 1..Len(jobs) /\ jobs[held] \in R!Job /\ R!ChatHeld \in Target
<1>1. held \in 1..Len(jobs) /\ jobs[held] \in R!Job
  BY DEF R!TypeOK
<1> QED
  BY <1>1 DEF R!ChatHeld, R!Job

LEMMA RateInit == R!Init => RateInv
<1> SUFFICES ASSUME R!Init PROVE RateInv
  OBVIOUS
<1> USE LeavesAssumption DEF R!LimiterAssumption, R!Init, R!Never
<1>1. R!TypeOK
  BY DEF R!TypeOK, R!Time
<1>2. JobsInHand /\ PauseIsWhole /\ CallIsLast
  BY DEF JobsInHand, PauseIsWhole, CallIsLast
<1>3. TokenIsEarned
  BY DEF TokenIsEarned, R!Token
<1>4. ClockIsNotAhead
  BY DEF ClockIsNotAhead
<1>5. ClockIsRight
  <2>1. R!Token
    BY DEF R!Token
  <2>2. 0 <= R!Clock
    BY DEF R!Clock
  <2> QED
    BY <2>1, <2>2 DEF ClockIsRight
<1> QED
  BY <1>1, <1>2, <1>3, <1>4, <1>5 DEF RateInv

\* Steps that leave the gate and the clock alone.
LEMMA GateRests ==
  ASSUME RateInv, UNCHANGED <<now, back, stepped, token, refilled, last, until, sends, spoke, asked>>
  PROVE  TokenIsEarned' /\ ClockIsNotAhead' /\ PauseIsWhole' /\ ClockIsRight'
<1>1. R!Clock' = R!Clock /\ R!Token' = R!Token
  BY DEF R!Clock, R!Token, R!Never
<1>2. TokenIsEarned'
  BY <1>1 DEF RateInv, TokenIsEarned, R!Never
<1>3. ClockIsNotAhead' /\ PauseIsWhole'
  BY <1>1 DEF RateInv, ClockIsNotAhead, PauseIsWhole, R!Never
<1>4. ClockIsRight'
  BY <1>1 DEF RateInv, ClockIsRight, R!Never
<1> QED
  BY <1>2, <1>3, <1>4

LEMMA EnqueueKeeps ==
  ASSUME RateInv, NEW c \in Target, R!Enqueue(c)
  PROVE  RateInv'
<1> USE LeavesAssumption DEF R!LimiterAssumption
<1> DEFINE new == [chat |-> c, state |-> "waiting", due |-> R!Clock, attempts |-> 0]
<1>0. /\ Len(jobs) < MaxJobs /\ jobs' = Append(jobs, new)
      /\ UNCHANGED <<now, back, stepped, held, start, token, refilled, last, until, sends, spoke,
                     asked, callFaults>>
  BY DEF R!Enqueue, R!clockVars, R!limiterVars
<1>1. new \in R!Job
  BY RateTypes DEF RateInv, R!Job, R!State
<1>2. new.state = "waiting" /\ new.attempts < MaxAttempts
  OBVIOUS
<1> HIDE DEF new
<1>3. /\ jobs' \in Seq(R!Job) /\ Len(jobs') = Len(jobs) + 1
      /\ \A j \in 1..Len(jobs) : jobs'[j] = jobs[j]
      /\ jobs'[Len(jobs) + 1] = new
  BY <1>0, <1>1 DEF RateInv, R!TypeOK
<1>4. R!TypeOK'
  BY <1>0, <1>3 DEF RateInv, R!TypeOK, R!Time
<1>5. held # 0 => jobs'[held] = jobs[held]
  BY <1>3, HeldTyped DEF RateInv
<1>6. JobsInHand'
  <2>0. jobs \in Seq(R!Job)
    BY DEF RateInv, R!TypeOK
  <2>1. \A j \in DOMAIN jobs' : j \in DOMAIN jobs \/ j = Len(jobs) + 1
    BY <2>0, <1>3
  <2>2. \A j \in DOMAIN jobs' : jobs'[j].state = "waiting" => jobs'[j].attempts < MaxAttempts
    <3> TAKE j \in DOMAIN jobs'
    <3>1. CASE j = Len(jobs) + 1
      BY <3>1, <1>2, <1>3
    <3>2. CASE j \in DOMAIN jobs
      <4>1. j \in 1..Len(jobs)
        BY <3>2 DEF RateInv, R!TypeOK
      <4> QED
        BY <3>2, <4>1, <1>3 DEF RateInv, JobsInHand
    <3> QED
      BY <2>1, <3>1, <3>2
  <2> QED
    BY <2>2, <1>0, <1>5 DEF RateInv, JobsInHand, R!Never
<1>7. CallIsLast'
  BY <1>0, <1>5 DEF RateInv, JobsInHand, CallIsLast, R!Never, R!ChatHeld
<1> QED
  BY <1>0, <1>4, <1>6, <1>7, GateRests DEF RateInv

LEMMA ClaimKeeps ==
  ASSUME RateInv, R!Claim
  PROVE  RateInv'
<1> USE LeavesAssumption DEF R!LimiterAssumption
<1>0. UNCHANGED <<now, back, stepped, start, token, refilled, last, until, sends, spoke, asked,
                  callFaults>>
  BY DEF R!Claim, R!clockVars, R!limiterVars
<1>1. PICK k \in DOMAIN jobs :
        /\ jobs[k].state = "waiting" /\ held' = k
        /\ jobs' = [jobs EXCEPT ![k].state = "sending", ![k].attempts = @ + 1]
  BY DEF R!Claim, R!Due
<1> DEFINE s == [jobs[k] EXCEPT !.state = "sending"]
           r == [s EXCEPT !.attempts = jobs[k].attempts + 1]
<1>2. k \in 1..Len(jobs) /\ jobs[k] \in R!Job /\ jobs[k].attempts < MaxAttempts
  <2>1. jobs \in Seq(R!Job)
    BY DEF RateInv, R!TypeOK
  <2>2. k \in 1..Len(jobs) /\ jobs[k] \in R!Job
    BY <2>1, <1>1
  <2>3. jobs[k].attempts < MaxAttempts
    BY <1>1 DEF RateInv, JobsInHand
  <2> QED
    BY <2>2, <2>3
<1>3. jobs' = [jobs EXCEPT ![k] = r]
  BY <1>1, <1>2 DEF R!Job
<1>4. s \in R!Job /\ s.state = "sending"
  BY <1>2 DEF R!Job, R!State
<1> HIDE DEF s
<1>5. r \in R!Job /\ r.state = "sending" /\ r.attempts > 0
  <2>1. jobs[k].attempts + 1 \in 1..MaxAttempts
    BY <1>2 DEF R!Job
  <2> QED
    BY <2>1, <1>4 DEF R!Job
<1> HIDE DEF r
<1>6. /\ jobs' \in Seq(R!Job) /\ Len(jobs') = Len(jobs) /\ jobs'[k] = r
      /\ \A j \in 1..Len(jobs) : j # k => jobs'[j] = jobs[j]
  BY <1>2, <1>3, <1>5, JobReplaced DEF RateInv, R!TypeOK
<1>7. R!TypeOK'
  <2>1. Len(jobs') <= MaxJobs /\ held' \in 0..Len(jobs')
    BY <1>1, <1>2, <1>6 DEF RateInv, R!TypeOK
  <2> QED
    BY <2>1, <1>0, <1>6 DEF RateInv, R!TypeOK, R!Time
<1>8. start = R!Never
  BY DEF R!Claim, RateInv, JobsInHand
<1>9. JobsInHand' /\ CallIsLast'
  BY <1>0, <1>1, <1>5, <1>6, <1>8 DEF RateInv, R!TypeOK, JobsInHand, CallIsLast, R!Never
<1> QED
  BY <1>0, <1>7, <1>9, GateRests DEF RateInv

\* The delay of a denial.
LEMMA WaitTyped ==
  ASSUME R!TypeOK, NEW c \in Target
  PROVE  R!Wait(c) \in Nat /\ R!Elapsed(c) \in Nat /\ R!Elapsed(c) * Second \in Nat
         /\ (R!TooSoon(c) => Interval - R!Elapsed(c) * Second \in Nat \ {0})
<1> USE LeavesAssumption DEF R!LimiterAssumption
<1>0. Second \in Nat \ {0} /\ Interval \in Nat \ {0}
  OBVIOUS
<1>1. R!Clock \in Nat /\ last[c] \in Nat /\ until[c] \in Nat
  BY RateTypes
<1>2. R!Elapsed(c) \in Nat
  BY <1>1 DEF R!Elapsed
<1>3. R!Elapsed(c) * Second \in Nat
  BY <1>0, <1>2
<1>4. R!TooSoon(c) => Interval - R!Elapsed(c) * Second \in Nat \ {0}
  BY <1>0, <1>3 DEF R!TooSoon
<1>5. R!TooSoon(c) => R!CeilDiv(Interval - R!Elapsed(c) * Second, Second) \in Nat
  BY <1>0, <1>4, RoundsUp
<1>6. R!Wait(c) \in Nat
  BY <1>1, <1>5 DEF R!Wait, R!Cooling
<1> QED
  BY <1>2, <1>3, <1>4, <1>6

\* A step that puts the job in hand off, and leaves the gate and the clock alone.
LEMMA PutOffKeeps ==
  ASSUME RateInv, held # 0, NEW delay \in Nat, R!PutOff(delay)
  PROVE  JobsInHand' /\ CallIsLast'
         /\ (jobs' \in Seq(R!Job) /\ Len(jobs') <= MaxJobs /\ held' \in 0..Len(jobs'))
         /\ start' \in R!Time
<1> USE LeavesAssumption DEF R!LimiterAssumption
<1>1. /\ jobs' \in Seq(R!Job) /\ Len(jobs') = Len(jobs) /\ held' = 0 /\ start' = R!Never
      /\ \A j \in DOMAIN jobs' : jobs'[j].state = "waiting" => jobs'[j].attempts < MaxAttempts
  BY PutsBack
<1>2. JobsInHand' /\ CallIsLast'
  BY <1>1 DEF JobsInHand, CallIsLast, R!Never
<1>3. Len(jobs') <= MaxJobs /\ held' \in 0..Len(jobs')
  BY <1>1 DEF RateInv, R!TypeOK
<1>4. start' \in R!Time
  BY <1>1 DEF R!Never, R!Time
<1> QED
  BY <1>1, <1>2, <1>3, <1>4

\* The bucket of a denial is refilled; what it holds is what it held.
LEMMA DeferKeeps ==
  ASSUME RateInv, R!Defer
  PROVE  RateInv'
<1> USE LeavesAssumption DEF R!LimiterAssumption
<1>0. /\ held # 0 /\ start = R!Never
      /\ token' = R!Token /\ refilled' = R!Clock /\ R!PutOff(R!Wait(R!ChatHeld))
      /\ UNCHANGED <<now, back, stepped, last, until, sends, spoke, asked, callFaults>>
  BY DEF R!Defer, R!clockVars
<1>1. R!Wait(R!ChatHeld) \in Nat
  BY <1>0, HeldTyped, WaitTyped DEF RateInv
<1>2. JobsInHand' /\ CallIsLast' /\ start' \in R!Time
      /\ (jobs' \in Seq(R!Job) /\ Len(jobs') <= MaxJobs /\ held' \in 0..Len(jobs'))
  BY <1>0, <1>1, PutOffKeeps
<1>3. R!Clock' = R!Clock /\ R!Token' = R!Token /\ R!Token \in BOOLEAN
  BY <1>0, RateTypes DEF RateInv, R!TypeOK, R!Clock, R!Token, R!Never
<1>4. R!TypeOK'
  BY <1>0, <1>2, <1>3, RateTypes DEF RateInv, R!TypeOK, R!Time
<1>5. TokenIsEarned'
  BY <1>0, <1>3, RateTypes DEF RateInv, TokenIsEarned, R!Never
<1>6. ClockIsNotAhead' /\ PauseIsWhole'
  BY <1>0, <1>3 DEF RateInv, ClockIsNotAhead, PauseIsWhole, R!Never
<1>7. ClockIsRight'
  BY <1>0, <1>3, RateTypes DEF RateInv, ClockIsRight, R!Never
<1> QED
  BY <1>2, <1>4, <1>5, <1>6, <1>7 DEF RateInv

LEMMA ProceedKeeps ==
  ASSUME RateInv, R!Proceed
  PROVE  RateInv'
<1> USE LeavesAssumption DEF R!LimiterAssumption
<1> DEFINE h == R!ChatHeld
<1>0. /\ held # 0 /\ start = R!Never /\ R!Token
      /\ token' = FALSE /\ refilled' = R!Clock /\ last' = [last EXCEPT ![h] = R!Clock]
      /\ start' = R!Clock /\ sends' = sends + 1 /\ spoke' = [spoke EXCEPT ![h] = now]
      /\ UNCHANGED <<now, back, stepped, jobs, held, until, asked, callFaults>>
  BY DEF R!Proceed, R!clockVars, R!Passes
<1>1. h \in Target /\ h' = h
  BY <1>0, HeldTyped DEF RateInv, R!ChatHeld
<1> HIDE DEF h
<1>t. /\ now \in Nat \ {0} /\ R!Clock \in Nat \ {0} /\ R!Clock \in R!Time
      /\ now \in 0..MaxTime /\ sends \in Nat
  BY RateTypes DEF RateInv, R!TypeOK
<1>2. /\ last' \in [Target -> R!Time] /\ spoke' \in [Target -> 0..MaxTime]
      /\ last'[h] = R!Clock /\ spoke'[h] = now
      /\ \A c \in Target : c # h => last'[c] = last[c] /\ spoke'[c] = spoke[c]
  BY <1>0, <1>1, <1>t DEF RateInv, R!TypeOK
<1>3. R!Clock' = R!Clock /\ ~R!Token'
  BY <1>0 DEF R!Clock, R!Token
<1>4. R!TypeOK'
  <2>1. /\ now' \in 1..MaxTime /\ back' \in 0..MaxBack /\ stepped' \in 0..MaxTime
        /\ jobs' \in Seq(R!Job) /\ Len(jobs') <= MaxJobs /\ held' \in 0..Len(jobs')
    BY <1>0 DEF RateInv, R!TypeOK
  <2>2. /\ start' \in R!Time /\ token' \in BOOLEAN /\ refilled' \in R!Time /\ sends' \in Nat
    <3>1. start' \in R!Time /\ refilled' \in R!Time
      BY <1>0, <1>t, Zenon
    <3>2. token' \in BOOLEAN
      BY <1>0, Zenon
    <3>3. sends' \in Nat
      <4>1. sends' = sends + 1
        BY <1>0, Zenon
      <4> QED
        BY <4>1, <1>t
    <3> QED
      BY <3>1, <3>2, <3>3
  <2>3. until' \in [Target -> Nat] /\ asked' \in [Target -> Nat] /\ callFaults' \in 0..CallFaults
    BY <1>0 DEF RateInv, R!TypeOK
  <2> QED
    BY <2>1, <2>2, <2>3, <1>2 DEF R!TypeOK, R!Time
<1>5. JobsInHand'
  BY <1>0 DEF RateInv, JobsInHand, R!Never
<1>6. TokenIsEarned'
  BY <1>0, <1>3, <1>t DEF RateInv, TokenIsEarned, R!TypeOK, R!Never
<1>7. ClockIsNotAhead'
  <2> SUFFICES ASSUME NEW c \in Target
               PROVE  /\ spoke'[c] = 0 <=> last'[c] = 0
                      /\ spoke'[c] <= now
                      /\ spoke'[c] # 0 => R!Clock + spoke'[c] <= last'[c] + now
    BY <1>0, <1>3 DEF ClockIsNotAhead, R!Never
  <2>1. CASE c = h
    BY <2>1, <1>2, <1>t
  <2>2. CASE c # h
    BY <2>2, <1>2 DEF RateInv, ClockIsNotAhead, R!Never
  <2> QED
    BY <2>1, <2>2
<1>8. PauseIsWhole'
  BY <1>0, <1>3 DEF RateInv, PauseIsWhole
<1>9. CallIsLast'
  <2>1. h' = R!ChatHeld'
    BY DEF h
  <2> QED
    BY <2>1, <1>0, <1>1, <1>2, <1>t DEF CallIsLast, R!Never
<1>10. ClockIsRight'
  <2> SUFFICES ASSUME stepped = R!Never
               PROVE  /\ back = 0 /\ R!Clock <= R!Clock
                      /\ \A c \in Target :
                           /\ last'[c] = IF spoke'[c] = 0 THEN 0 ELSE MaxBack + spoke'[c]
                           /\ until[c] = IF asked[c] = 0 THEN 0 ELSE MaxBack + asked[c]
                      /\ \E c \in Target : spoke'[c] = now
    BY <1>0, <1>3 DEF ClockIsRight, R!Never
  <2>1. back = 0 /\ R!Clock = MaxBack + now
    BY RateTypes DEF RateInv, ClockIsRight, R!Clock
  <2>2. ASSUME NEW c \in Target
        PROVE  /\ last'[c] = IF spoke'[c] = 0 THEN 0 ELSE MaxBack + spoke'[c]
               /\ until[c] = IF asked[c] = 0 THEN 0 ELSE MaxBack + asked[c]
    BY <2>1, <1>2, <1>t DEF RateInv, ClockIsRight
  <2> QED
    BY <2>1, <2>2, <1>1, <1>2, <1>t
<1> QED
  BY <1>4, <1>5, <1>6, <1>7, <1>8, <1>9, <1>10 DEF RateInv

LEMMA FinishKeeps ==
  ASSUME RateInv, R!Finish
  PROVE  RateInv'
<1> USE LeavesAssumption DEF R!LimiterAssumption
<1>0. /\ held # 0 /\ held' = 0 /\ start' = R!Never
      /\ jobs' = [jobs EXCEPT ![held].state = "settled"]
      /\ UNCHANGED <<now, back, stepped, token, refilled, last, until, sends, spoke, asked, callFaults>>
  BY DEF R!Finish, R!clockVars, R!limiterVars, RateInv, JobsInHand
<1> DEFINE r == [jobs[held] EXCEPT !.state = "settled"]
<1>1. held \in 1..Len(jobs) /\ jobs[held] \in R!Job
  BY <1>0, HeldTyped DEF RateInv
<1>2. r \in R!Job /\ r.state = "settled"
  BY <1>1 DEF R!Job, R!State
<1>3. jobs' = [jobs EXCEPT ![held] = r]
  BY <1>0, <1>1
<1> HIDE DEF r
<1>4. /\ jobs' \in Seq(R!Job) /\ Len(jobs') = Len(jobs) /\ jobs'[held] = r
      /\ \A j \in 1..Len(jobs) : j # held => jobs'[j] = jobs[j]
  BY <1>1, <1>2, <1>3, JobReplaced DEF RateInv, R!TypeOK
<1>5. R!TypeOK'
  <2>1. Len(jobs') <= MaxJobs /\ held' \in 0..Len(jobs') /\ start' \in R!Time
    <3>1. Len(jobs) \in Nat /\ Len(jobs) <= MaxJobs
      BY DEF RateInv, R!TypeOK
    <3>2. 0 \in R!Time
      BY DEF R!Time
    <3> QED
      BY <3>1, <3>2, <1>0, <1>4 DEF R!Never
  <2> QED
    BY <2>1, <1>0, <1>4 DEF RateInv, R!TypeOK, R!Time
<1>6. JobsInHand' /\ CallIsLast'
  BY <1>0, <1>2, <1>4 DEF RateInv, R!TypeOK, JobsInHand, CallIsLast, R!Never
<1> QED
  BY <1>0, <1>5, <1>6, GateRests DEF RateInv

\* The random share is a number, and so is the backoff.
LEMMA BackoffTyped ==
  ASSUME NEW n \in 1..MaxAttempts
  PROVE  R!Backoff(n) \in Nat
<1> USE LeavesAssumption DEF R!LimiterAssumption
<1>1. n - 1 \in 0..MaxAttempts
  OBVIOUS
<1>2. 2^(n - 1) \in Nat
  BY <1>1
<1>3. BackoffBase * 2^(n - 1) \in Nat
  BY <1>2
<1> QED
  BY <1>3 DEF R!Backoff

LEMMA TransientKeeps ==
  ASSUME RateInv, R!Transient
  PROVE  RateInv'
<1> USE LeavesAssumption DEF R!LimiterAssumption
<1>0. /\ held # 0 /\ callFaults' \in 0..CallFaults
      /\ UNCHANGED <<now, back, stepped, token, refilled, last, until, sends, spoke, asked>>
  BY DEF R!Transient, R!clockVars, R!limiterVars, RateInv, JobsInHand, R!TypeOK
<1>1. PICK j \in 0..Jitter : R!PutOff(R!Backoff(jobs[held].attempts) + j)
  BY DEF R!Transient
<1>2. jobs[held].attempts \in 1..MaxAttempts
  BY <1>0, HeldTyped DEF RateInv, R!Job, JobsInHand
<1>3. R!Backoff(jobs[held].attempts) + j \in Nat
  BY <1>2, BackoffTyped
<1>4. JobsInHand' /\ CallIsLast' /\ start' \in R!Time
      /\ (jobs' \in Seq(R!Job) /\ Len(jobs') <= MaxJobs /\ held' \in 0..Len(jobs'))
  BY <1>0, <1>1, <1>3, PutOffKeeps
<1>5. R!TypeOK'
  BY <1>0, <1>4 DEF RateInv, R!TypeOK, R!Time
<1> QED
  BY <1>0, <1>4, <1>5, GateRests DEF RateInv

LEMMA LargerIs ==
  ASSUME NEW m \in Nat, NEW n \in Nat
  PROVE  R!Larger(m, n) \in Nat /\ R!Larger(m, n) >= m /\ R!Larger(m, n) >= n
         /\ R!Larger(m, n) \in {m, n}
  BY DEF R!Larger

\* The pause and the call it was asked of are the same way from the clock and from
\* real time.
LEMMA RateLimitedKeeps ==
  ASSUME RateInv, R!RateLimited
  PROVE  RateInv'
<1> USE LeavesAssumption DEF R!LimiterAssumption
<1> DEFINE h == R!ChatHeld
<1>0. /\ start # 0 /\ callFaults' \in 0..CallFaults
      /\ UNCHANGED <<now, back, stepped, token, refilled, last, sends, spoke>>
  BY DEF R!RateLimited, R!clockVars, RateInv, R!TypeOK, R!Never
<1>1. PICK p \in Pause, j \in 0..Jitter :
        /\ until' = [until EXCEPT ![h] = R!Larger(until[h], start + p)]
        /\ asked' = [asked EXCEPT ![h] = R!Larger(asked[h], spoke[h] + p)]
        /\ R!PutOff(p + j)
  BY DEF R!RateLimited, RateInv, R!TypeOK
<1>2. /\ held # 0 /\ h \in Target /\ last[h] = start /\ spoke[h] # 0 /\ p \in Nat /\ p + j \in Nat
  BY <1>0, HeldTyped DEF RateInv, JobsInHand, CallIsLast, R!Never
<1> HIDE DEF h
<1>t. /\ R!Clock \in Nat /\ now \in Nat /\ start \in Nat /\ spoke[h] \in Nat /\ until[h] \in Nat
      /\ asked[h] \in Nat /\ back \in Nat /\ MaxBack \in Nat
  BY <1>2, RateTypes DEF RateInv
<1>l. /\ R!Larger(until[h], start + p) \in Nat /\ R!Larger(asked[h], spoke[h] + p) \in Nat
      /\ R!Larger(until[h], start + p) >= until[h] /\ R!Larger(until[h], start + p) >= start + p
      /\ R!Larger(asked[h], spoke[h] + p) \in {asked[h], spoke[h] + p}
  <2>1. start + p \in Nat /\ spoke[h] + p \in Nat
    BY <1>2, <1>t
  <2> QED
    BY <2>1, <1>t, LargerIs
<1>3. /\ until'[h] = R!Larger(until[h], start + p) /\ asked'[h] = R!Larger(asked[h], spoke[h] + p)
      /\ until' \in [Target -> Nat] /\ asked' \in [Target -> Nat]
      /\ \A c \in Target : c # h => until'[c] = until[c] /\ asked'[c] = asked[c]
  BY <1>1, <1>2, <1>l DEF RateInv, R!TypeOK
<1>4. JobsInHand' /\ CallIsLast' /\ start' \in R!Time
      /\ (jobs' \in Seq(R!Job) /\ Len(jobs') <= MaxJobs /\ held' \in 0..Len(jobs'))
  BY <1>1, <1>2, PutOffKeeps
<1>5. R!TypeOK'
  BY <1>0, <1>3, <1>4 DEF RateInv, R!TypeOK, R!Time
<1>6. R!Clock' = R!Clock /\ R!Token' = R!Token
  BY <1>0 DEF R!Clock, R!Token, R!Never
<1>7. TokenIsEarned'
  BY <1>0, <1>6 DEF RateInv, TokenIsEarned, R!Never
<1>8. ClockIsNotAhead'
  BY <1>0, <1>6 DEF RateInv, ClockIsNotAhead, R!Never
<1>9. R!Clock + spoke[h] <= start + now
  BY <1>2 DEF RateInv, ClockIsNotAhead, R!Never
<1>10. PauseIsWhole'
  <2> SUFFICES ASSUME NEW c \in Target, asked'[c] # 0
               PROVE  asked'[c] + R!Clock <= until'[c] + now
    BY <1>0, <1>6 DEF PauseIsWhole
  <2>1. CASE c # h
    BY <2>1, <1>3 DEF RateInv, PauseIsWhole
  <2>2. CASE c = h /\ asked'[h] = asked[h]
    <3>1. asked[h] + R!Clock <= until[h] + now
      BY <2>2, <1>2 DEF RateInv, PauseIsWhole
    <3> QED
      BY <2>2, <3>1, <1>3, <1>l, <1>t
  <2>3. CASE c = h /\ asked'[h] = spoke[h] + p
    BY <2>3, <1>2, <1>3, <1>9, <1>l, <1>t
  <2> QED
    BY <2>1, <2>2, <2>3, <1>3, <1>l
<1>11. ClockIsRight'
  <2> SUFFICES ASSUME stepped = 0
               PROVE  /\ back = 0 /\ refilled <= R!Clock
                      /\ \A c \in Target :
                           /\ last[c] = IF spoke[c] = 0 THEN 0 ELSE MaxBack + spoke[c]
                           /\ until'[c] = IF asked'[c] = 0 THEN 0 ELSE MaxBack + asked'[c]
                      /\ ~R!Token => \E c \in Target : spoke[c] = now
    BY <1>0, <1>6 DEF ClockIsRight, R!Never
  <2>1. /\ back = 0 /\ refilled <= R!Clock
        /\ \A c \in Target :
             /\ last[c] = IF spoke[c] = 0 THEN 0 ELSE MaxBack + spoke[c]
             /\ until[c] = IF asked[c] = 0 THEN 0 ELSE MaxBack + asked[c]
        /\ ~R!Token => \E c \in Target : spoke[c] = now
    BY DEF RateInv, ClockIsRight, R!Never
  <2>2. until'[h] = IF asked'[h] = 0 THEN 0 ELSE MaxBack + asked'[h]
    <3>1. start = MaxBack + spoke[h] /\ until[h] = IF asked[h] = 0 THEN 0 ELSE MaxBack + asked[h]
      BY <2>1, <1>2
    <3> QED
      BY <3>1, <1>2, <1>3, <1>t DEF R!Larger
  <2> QED
    BY <2>1, <2>2, <1>3
<1> QED
  BY <1>4, <1>5, <1>7, <1>8, <1>10, <1>11 DEF RateInv

\* A second goes by, in real time and by the clock; the token comes back.
LEMMA TickKeeps ==
  ASSUME RateInv, R!Tick
  PROVE  RateInv'
<1> USE LeavesAssumption DEF R!LimiterAssumption
<1>0. /\ now < MaxTime /\ now' = now + 1
      /\ UNCHANGED <<back, stepped, jobs, held, start, token, refilled, last, until, sends, spoke,
                     asked, callFaults>>
  BY DEF R!Tick, R!limiterVars
<1>t. /\ now \in Nat \ {0} /\ back \in 0..MaxBack /\ MaxBack \in Nat /\ R!Clock \in Nat \ {0}
      /\ refilled \in Nat /\ sends \in Nat
      /\ \A c \in Target : last[c] \in Nat /\ until[c] \in Nat /\ spoke[c] \in Nat /\ asked[c] \in Nat
  BY RateTypes DEF RateInv
<1>1. R!Clock' = R!Clock + 1
  BY <1>0, <1>t DEF R!Clock
<1>2. R!TypeOK'
  BY <1>0, <1>t DEF RateInv, R!TypeOK, R!Time
<1>3. JobsInHand' /\ CallIsLast'
  BY <1>0 DEF RateInv, JobsInHand, CallIsLast, R!Never, R!ChatHeld
<1>4. TokenIsEarned'
  <2>1. sends <= now + back
    BY <1>t DEF RateInv, TokenIsEarned
  <2>2. refilled' = R!Never => token'
    BY <1>0 DEF RateInv, TokenIsEarned
  <2> QED
    BY <2>1, <2>2, <1>0, <1>t DEF TokenIsEarned, R!Never
<1>5. ClockIsNotAhead'
  BY <1>0, <1>1, <1>t DEF RateInv, ClockIsNotAhead, R!Never
<1>6. PauseIsWhole'
  BY <1>0, <1>1, <1>t DEF RateInv, PauseIsWhole
<1>7. ClockIsRight'
  <2> SUFFICES ASSUME stepped = 0
               PROVE  /\ back = 0 /\ refilled <= R!Clock + 1
                      /\ \A c \in Target :
                           /\ last[c] = IF spoke[c] = 0 THEN 0 ELSE MaxBack + spoke[c]
                           /\ until[c] = IF asked[c] = 0 THEN 0 ELSE MaxBack + asked[c]
                      /\ R!Token'
    BY <1>0, <1>1 DEF ClockIsRight, R!Never
  <2>1. /\ back = 0 /\ refilled <= R!Clock
        /\ \A c \in Target :
             /\ last[c] = IF spoke[c] = 0 THEN 0 ELSE MaxBack + spoke[c]
             /\ until[c] = IF asked[c] = 0 THEN 0 ELSE MaxBack + asked[c]
    BY DEF RateInv, ClockIsRight, R!Never
  <2>2. refilled = 0 => token
    BY DEF RateInv, TokenIsEarned, R!Never
  <2>3. R!Token'
    BY <2>1, <2>2, <1>0, <1>1, <1>t DEF R!Token, R!Never
  <2> QED
    BY <2>1, <2>3, <1>t
<1> QED
  BY <1>2, <1>3, <1>4, <1>5, <1>6, <1>7 DEF RateInv

\* The clock steps back; every state from here on has seen it.
LEMMA StepBackKeeps ==
  ASSUME RateInv, R!StepBack
  PROVE  RateInv'
<1> USE LeavesAssumption DEF R!LimiterAssumption
<1>0. /\ back < MaxBack /\ back' = back + 1 /\ stepped' = now
      /\ UNCHANGED <<now, jobs, held, start, token, refilled, last, until, sends, spoke, asked,
                     callFaults>>
  BY DEF R!StepBack, R!limiterVars
<1>t. /\ now \in Nat \ {0} /\ back \in 0..MaxBack /\ MaxBack \in Nat /\ R!Clock \in Nat \ {0}
      /\ sends \in Nat
      /\ \A c \in Target : last[c] \in Nat /\ until[c] \in Nat /\ spoke[c] \in Nat /\ asked[c] \in Nat
  BY RateTypes DEF RateInv
<1>1. R!Clock' = R!Clock - 1
  BY <1>0, <1>t DEF R!Clock
<1>2. R!TypeOK'
  BY <1>0, <1>t DEF RateInv, R!TypeOK, R!Time
<1>3. JobsInHand' /\ CallIsLast'
  BY <1>0 DEF RateInv, JobsInHand, CallIsLast, R!Never, R!ChatHeld
<1>4. TokenIsEarned'
  <2>1. sends <= now + back
    BY <1>t DEF RateInv, TokenIsEarned
  <2>2. refilled' = R!Never => token'
    BY <1>0 DEF RateInv, TokenIsEarned
  <2> QED
    BY <2>1, <2>2, <1>0, <1>t DEF TokenIsEarned, R!Never
<1>5. ClockIsNotAhead'
  BY <1>0, <1>1, <1>t DEF RateInv, ClockIsNotAhead, R!Never
<1>6. PauseIsWhole'
  BY <1>0, <1>1, <1>t DEF RateInv, PauseIsWhole
<1>7. ClockIsRight'
  BY <1>0, <1>t DEF ClockIsRight, R!Never
<1> QED
  BY <1>2, <1>3, <1>4, <1>5, <1>6, <1>7 DEF RateInv

LEMMA RateStep == RateInv /\ [R!Next]_(R!vars) => RateInv'
<1> SUFFICES ASSUME RateInv, [R!Next]_(R!vars) PROVE RateInv'
  OBVIOUS
<1>1. CASE UNCHANGED R!vars
  <2>1. UNCHANGED <<now, back, stepped, jobs, held, start, token, refilled, last, until, sends,
                    spoke, asked, callFaults>>
    BY <1>1 DEF R!vars, R!clockVars, R!limiterVars
  <2>2. R!TypeOK'
    BY <2>1 DEF RateInv, R!TypeOK, R!Time
  <2>3. JobsInHand' /\ CallIsLast'
    BY <2>1 DEF RateInv, JobsInHand, CallIsLast, R!Never, R!ChatHeld
  <2> QED
    BY <2>1, <2>2, <2>3, GateRests DEF RateInv
<1>2. CASE R!Next
  BY <1>2, EnqueueKeeps, ClaimKeeps, DeferKeeps, ProceedKeeps, FinishKeeps, RateLimitedKeeps,
     TransientKeeps, TickKeeps, StepBackKeeps
  DEF R!Next
<1> QED
  BY <1>1, <1>2

\* The inductive invariant of the rate gate: a token and the calls that passed are
\* earned by seconds and steps of the clock, and by the clock a gap and a pause last
\* at least as long as in real time (try_acquire, penalize, refill).
THEOREM RateInvariance == R!Spec => []RateInv
  BY RateInit, RateStep, PTL DEF R!Spec

\* Only a call that passes counts, of the chat of the job in hand.
LEMMA WhoSends ==
  ASSUME RateInv, [R!Next]_(R!vars), NEW c \in Target, R!SendsTo(c)
  PROVE  R!Passes(c)
<1>1. sends \in Nat /\ sends' = sends + 1 /\ R!ChatHeld = c
  BY RateTypes DEF RateInv, R!SendsTo
<1>2. sends' # sends
  BY <1>1
<1>3. R!Proceed
  BY <1>2 DEF R!Next, R!vars, R!Enqueue, R!Claim, R!Defer, R!Finish, R!RateLimited, R!Transient,
     R!Tick, R!StepBack
<1> QED
  BY <1>1, <1>3 DEF R!Proceed

\* Only a denial puts a job off before its call.
LEMMA WhoDenies ==
  ASSUME RateInv, [R!Next]_(R!vars), NEW c \in Target, R!PutsOff(c)
  PROVE  R!Defer /\ ~R!Passes(c) /\ R!Wait(c) \in Nat /\ held # 0
         /\ (jobs'[held].state = "waiting" => jobs'[held].due = R!Clock + R!Wait(c))
<1>1. held # 0 /\ start = R!Never /\ held' = 0 /\ R!ChatHeld = c
  BY DEF R!PutsOff
<1>2. R!Defer
  <2>1. held' # held
    BY <1>1
  <2>2. held = 0 \/ ~R!Claim
    BY DEF R!Claim
  <2> QED
    BY <1>1, <2>1, <2>2 DEF R!Next, R!vars, R!Enqueue, R!Proceed, R!Finish, R!RateLimited, R!Transient,
       R!Tick, R!StepBack
<1>3. ~R!Passes(c) /\ R!PutOff(R!Wait(c))
  BY <1>1, <1>2 DEF R!Defer
<1>4. R!Wait(c) \in Nat
  BY WaitTyped DEF RateInv
<1> QED
  BY <1>1, <1>2, <1>3, <1>4, PutsBack

\* By the clock it is at most as long since the last call to a chat as in real time.
LEMMA GapIsReal ==
  ASSUME RateInv, NEW c \in Target, ~R!TooSoon(c), spoke[c] # R!Never
  PROVE  (now - spoke[c]) * Second >= Interval
<1> USE LeavesAssumption DEF R!LimiterAssumption
<1>0. Second \in Nat \ {0} /\ Interval \in Nat \ {0}
  OBVIOUS
<1>1. /\ now \in Nat /\ R!Clock \in Nat /\ last[c] \in Nat /\ spoke[c] \in Nat
  BY RateTypes DEF RateInv
<1>2. last[c] # R!Never /\ R!Clock + spoke[c] <= last[c] + now /\ spoke[c] <= now
  BY DEF RateInv, ClockIsNotAhead
<1>3. R!Elapsed(c) \in Nat /\ R!Elapsed(c) * Second \in Nat
  BY WaitTyped DEF RateInv
<1>4. R!Elapsed(c) * Second >= Interval
  BY <1>0, <1>2, <1>3 DEF R!TooSoon
<1>5. R!Elapsed(c) <= now - spoke[c]
  BY <1>1, <1>2 DEF R!Elapsed
<1>6. R!Elapsed(c) * Second <= (now - spoke[c]) * Second
  BY <1>0, <1>1, <1>3, <1>5, Scales
<1>7. (now - spoke[c]) * Second \in Int
  BY <1>0, <1>1
<1> QED
  BY <1>0, <1>3, <1>4, <1>6, <1>7

\* What a denial is for, and how long it is, while the clock is right.
LEMMA DenialIsEarned ==
  ASSUME RateInv, NEW c \in Target, ~R!Passes(c), stepped = R!Never
  PROVE  \/ \E d \in Target : spoke[d] = now
         \/ spoke[c] # R!Never /\ (now - spoke[c]) * Second < Interval
         \/ now < asked[c]
<1> USE LeavesAssumption DEF R!LimiterAssumption
<1>1. /\ now \in Nat /\ last[c] \in Nat /\ spoke[c] \in Nat /\ asked[c] \in Nat /\ MaxBack \in Nat
      /\ back \in Nat /\ R!Clock \in Nat
  BY RateTypes DEF RateInv
<1>2. /\ R!Clock = MaxBack + now
      /\ last[c] = IF spoke[c] = 0 THEN 0 ELSE MaxBack + spoke[c]
      /\ until[c] = IF asked[c] = 0 THEN 0 ELSE MaxBack + asked[c]
      /\ ~R!Token => \E d \in Target : spoke[d] = now
      /\ spoke[c] <= now
  BY <1>1 DEF RateInv, ClockIsRight, ClockIsNotAhead, R!Clock
<1>3. CASE R!Cooling(c)
  BY <1>1, <1>2, <1>3 DEF R!Cooling
<1>4. CASE R!TooSoon(c)
  <2>1. spoke[c] # 0 /\ R!Elapsed(c) = now - spoke[c]
    BY <1>1, <1>2, <1>4 DEF R!TooSoon, R!Elapsed, R!Never
  <2> QED
    BY <2>1, <1>4 DEF R!TooSoon, R!Never
<1> QED
  BY <1>2, <1>3, <1>4 DEF R!Passes

\* The delay of a denial is over neither before the pause nor, while the clock is
\* right, before the gap.
LEMMA DelayCovers ==
  ASSUME RateInv, NEW c \in Target, ~R!Passes(c), NEW due, due = R!Clock + R!Wait(c)
  PROVE  /\ due > R!Clock
         /\ due >= until[c]
         /\ spoke[c] # R!Never /\ stepped = R!Never /\ now >= asked[c] =>
              (due - last[c]) * Second >= Interval
<1> USE LeavesAssumption DEF R!LimiterAssumption
<1>0. Second \in Nat \ {0} /\ Interval \in Nat \ {0}
  OBVIOUS
<1>1. /\ now \in Nat /\ last[c] \in Nat /\ spoke[c] \in Nat /\ asked[c] \in Nat /\ MaxBack \in Nat
      /\ back \in Nat /\ R!Clock \in Nat \ {0} /\ until[c] \in Nat
  BY RateTypes DEF RateInv
<1>2. CASE R!Cooling(c)
  <2>1. due = until[c] /\ R!Clock < until[c]
    BY <1>1, <1>2 DEF R!Wait, R!Cooling
  <2>2. stepped = R!Never => now < asked[c]
    BY <1>1, <1>2 DEF RateInv, ClockIsRight, R!Cooling, R!Clock
  <2> QED
    BY <2>1, <2>2, <1>1
<1>3. CASE ~R!Cooling(c) /\ R!TooSoon(c)
  <2> DEFINE e == R!Elapsed(c)
             x == Interval - e * Second
             q == R!CeilDiv(x, Second)
  <2>1. e \in Nat /\ e * Second \in Nat /\ x \in Nat \ {0}
    BY <1>3, WaitTyped DEF RateInv
  <2>2. due = R!Clock + q
    BY <1>3 DEF R!Wait
  <2> HIDE DEF x
  <2>3. q \in Nat /\ q * Second >= x /\ q > 0
    BY <2>1, <1>0, RoundsUp
  <2> HIDE DEF q
  <2>4. R!Clock >= until[c]
    BY <1>1, <1>3 DEF R!Cooling
  <2>5. ASSUME spoke[c] # R!Never, stepped = R!Never
        PROVE  (due - last[c]) * Second >= Interval
    <3>1. e = R!Clock - last[c]
      BY <2>5, <1>1 DEF R!Elapsed, RateInv, ClockIsRight, ClockIsNotAhead, R!Clock, R!Never
    <3> HIDE DEF e
    <3>2. due - last[c] = e + q
      BY <3>1, <2>1, <2>2, <2>3, <1>1
    <3>3. (e + q) * Second = e * Second + q * Second
      BY <2>1, <2>3, <1>0
    <3>4. x = Interval - e * Second
      BY DEF x, e
    <3>5. q * Second \in Nat
      BY <2>3, <1>0
    <3> QED
      BY <3>2, <3>3, <3>4, <3>5, <2>1, <2>3, <1>0
  <2> QED
    BY <2>2, <2>3, <2>4, <2>5, <1>1
<1>4. CASE ~R!Cooling(c) /\ ~R!TooSoon(c)
  <2>1. due = R!Clock + 1 /\ R!Clock >= until[c]
    BY <1>1, <1>4 DEF R!Wait, R!Cooling, R!Passes
  <2>2. ASSUME spoke[c] # R!Never, stepped = R!Never
        PROVE  (due - last[c]) * Second >= Interval
    <3>1. /\ now \in Nat /\ spoke[c] \in Nat /\ spoke[c] <= now /\ due - last[c] = now - spoke[c] + 1
      BY <2>1, <2>2, <1>1 DEF RateInv, ClockIsRight, ClockIsNotAhead, R!Clock, R!Never
    <3>2. (now - spoke[c]) * Second >= Interval
      BY <2>2, <1>4, GapIsReal
    <3>3. (now - spoke[c]) * Second <= (now - spoke[c] + 1) * Second
      BY <3>1, <1>0, Scales
    <3>4. (now - spoke[c]) * Second \in Int /\ (now - spoke[c] + 1) * Second \in Int
      BY <3>1, <1>0
    <3> QED
      BY <3>1, <3>2, <3>3, <3>4, <1>0
  <2> QED
    BY <2>1, <2>2, <1>1
<1> QED
  BY <1>2, <1>3, <1>4

\* Two calls to one chat pass at least the gap apart in real time, and after any pause
\* that was asked; the bucket banks no more than one send; and a job is put off for a
\* reason and for long enough (try_acquire, penalize, deliver_and_settle).
THEOREM GateKept == R!Spec => GateIsKept
<1>1. RateInv => R!TypeOK /\ R!BudgetIsEarned
  <2> SUFFICES ASSUME RateInv PROVE R!TypeOK /\ R!BudgetIsEarned
    OBVIOUS
  <2>1. sends + (IF R!Token THEN 1 ELSE 0) <= now + back /\ sends \in Nat /\ now \in Nat /\ back \in Nat
    BY RateTypes DEF RateInv, TokenIsEarned
  <2> QED
    BY <2>1 DEF RateInv, R!BudgetIsEarned
<1>2. ASSUME RateInv, [R!Next]_(R!vars)
      PROVE  \A c \in Target : R!SendsTo(c) /\ spoke[c] # R!Never
               => (now - spoke[c]) * Second >= Interval
  BY <1>2, WhoSends, GapIsReal DEF R!Passes
<1>3. ASSUME RateInv, [R!Next]_(R!vars)
      PROVE  \A c \in Target : R!SendsTo(c) => now >= asked[c]
  <2> SUFFICES ASSUME NEW c \in Target, R!SendsTo(c) PROVE now >= asked[c]
    OBVIOUS
  <2>1. R!Clock >= until[c]
    BY <1>3, WhoSends, RateTypes DEF RateInv, R!Passes, R!Cooling
  <2>2. /\ now \in Nat /\ R!Clock \in Nat /\ until[c] \in Nat /\ asked[c] \in Nat
        /\ asked[c] # 0 => asked[c] + R!Clock <= until[c] + now
    BY <1>3, RateTypes DEF RateInv, PauseIsWhole
  <2> QED
    BY <2>1, <2>2
<1>4. ASSUME RateInv, [R!Next]_(R!vars)
      PROVE  \A c \in Target : R!PutsOff(c) /\ stepped = R!Never =>
               \/ \E d \in Target : spoke[d] = now
               \/ spoke[c] # R!Never /\ (now - spoke[c]) * Second < Interval
               \/ now < asked[c]
  BY <1>4, WhoDenies, DenialIsEarned
<1>5. ASSUME RateInv, [R!Next]_(R!vars)
      PROVE  \A c \in Target : R!PutsOff(c) /\ jobs'[held].state = "waiting" =>
               LET due == jobs'[held].due
               IN  /\ due > R!Clock
                   /\ due >= until[c]
                   /\ spoke[c] # R!Never /\ stepped = R!Never /\ now >= asked[c] =>
                        (due - last[c]) * Second >= Interval
  BY <1>5, WhoDenies, DelayCovers
<1>6. R!Spec => R!ChatsSpaced
  BY <1>2, RateInvariance, PTL DEF R!Spec, R!ChatsSpaced
<1>7. R!Spec => R!CooldownKept
  BY <1>3, RateInvariance, PTL DEF R!Spec, R!CooldownKept
<1>8. R!Spec => R!PutOffForAReason
  BY <1>4, RateInvariance, PTL DEF R!Spec, R!PutOffForAReason
<1>9. R!Spec => R!DelayCoversTheGate
  BY <1>5, RateInvariance, PTL DEF R!Spec, R!DelayCoversTheGate
<1>10. R!Spec => []R!TypeOK /\ []R!BudgetIsEarned
  BY <1>1, RateInvariance, PTL
<1> QED
  BY <1>6, <1>7, <1>8, <1>9, <1>10 DEF GateIsKept, R!GateIsKept

=============================================================================
