------------------------------ MODULE BlobStore ------------------------------
(***************************************************************************)
(* The content-addressed store of attachments (crates/blob-store) on a     *)
(* file system: store copies a download into a staging file, hashes it,    *)
(* links or renames it to the name of its digest and writes a sidecar      *)
(* record; verify reads both back.                                         *)
(*                                                                         *)
(* A file is known by the call that created it, and holds the chunks that  *)
(* call has copied; a hard link is a second name of the same file.  The    *)
(* digest of a file is the bytes it holds.  One media type and one owner   *)
(* are ever stored, so a sidecar is only absent, truncated or whole.       *)
(***************************************************************************)
EXTENDS Naturals

CONSTANTS
  Call,      \* calls of store, each with a download of its own
  Document,  \* what the downloads contain
  Size,      \* chunks of a document
  Budget,    \* chunks a call may store
  NoCall,    \* no file
  MaxFaults  \* bound on broken downloads, refused operations and cut calls

StoreAssumption ==
  NoCall \notin Call /\ Size \in [Document -> Nat] /\ Budget \in Nat /\ MaxFaults \in Nat

VARIABLES
  pc,       \* where each call stands
  source,   \* the document it downloads
  copied,   \* chunks in the file it created
  \* directory entries
  staging,  \* the staging names that exist
  content,  \* the file under each digest
  meta,     \* the sidecar of each digest
  stuck,    \* history: calls whose staging file the file system refused to remove
  faults

fileVars == <<staging, content, meta, stuck>>
vars == <<pc, source, copied, fileVars, faults>>

Stage   == {"idle", "copy", "look", "link", "unstage", "rename", "meta", "fill",
            "done", "failed", "cut"}
Digest  == {[doc |-> d, n |-> n] : d \in Document, n \in 0..Budget}
Sidecar == {"none", "empty", "whole"}

\* What the file of call c contains, and so its digest.
Bytes(c) == [doc |-> source[c], n |-> copied[c]]

Init ==
  /\ pc = [c \in Call |-> "idle"]
  /\ source \in [Call -> Document]
  /\ copied = [c \in Call |-> 0]
  /\ staging = {} /\ stuck = {}
  /\ content = [k \in Digest |-> NoCall]
  /\ meta = [k \in Digest |-> "none"]
  /\ faults = 0

Goto(c, s) == pc' = [pc EXCEPT ![c] = s]

Begin(c) ==
  /\ pc[c] = "idle"
  /\ staging' = staging \cup {c}
  /\ Goto(c, "copy")
  /\ UNCHANGED <<source, copied, content, meta, stuck, faults>>

\* Nobody looks at whether a removal succeeds.
Remove(c) ==
  \/ staging' = staging \ {c} /\ UNCHANGED stuck
  \/ stuck' = stuck \cup {c} /\ UNCHANGED staging

\* A failed copy drops the staging file.
Drop(c) ==
  /\ Goto(c, "failed")
  /\ Remove(c)
  /\ UNCHANGED <<source, copied, content, meta>>

\* One chunk: counted against the budget before it is hashed and written.
CopyChunk(c) ==
  /\ pc[c] = "copy" /\ copied[c] < Size[source[c]]
  /\ IF copied[c] + 1 > Budget
     THEN Drop(c)
     ELSE /\ copied' = [copied EXCEPT ![c] = @ + 1]
          /\ UNCHANGED <<pc, source, fileVars>>
  /\ UNCHANGED faults

\* The download or a write fails.
BreakSource(c) ==
  /\ pc[c] = "copy" /\ faults < MaxFaults
  /\ faults' = faults + 1
  /\ Drop(c)

EndSource(c) ==
  /\ pc[c] = "copy" /\ copied[c] = Size[source[c]]
  /\ Goto(c, "look")
  /\ UNCHANGED <<source, copied, fileVars, faults>>

\* Bytes that are there already need no second copy.
Look(c) ==
  /\ pc[c] = "look"
  /\ IF content[Bytes(c)] # NoCall
     THEN Goto(c, "done") /\ Remove(c)
     ELSE Goto(c, "link") /\ UNCHANGED <<staging, stuck>>
  /\ UNCHANGED <<source, copied, content, meta, faults>>

\* The hard link fails when the name exists by now, or the file system refuses.
Link(c) ==
  /\ pc[c] = "link"
  /\ \/ /\ content[Bytes(c)] = NoCall
        /\ content' = [content EXCEPT ![Bytes(c)] = c]
        /\ Goto(c, "unstage") /\ UNCHANGED faults
     \/ /\ content[Bytes(c)] # NoCall
        /\ Goto(c, "rename") /\ UNCHANGED <<content, faults>>
     \/ /\ faults < MaxFaults /\ faults' = faults + 1
        /\ Goto(c, "rename") /\ UNCHANGED content
  /\ UNCHANGED <<source, copied, staging, meta, stuck>>

\* Mutant of Unstage: a linked file is taken for a finished one.
UnstageAndReturn(c) ==
  /\ pc[c] = "unstage"
  /\ Remove(c)
  /\ Goto(c, "done")
  /\ UNCHANGED <<source, copied, content, meta, faults>>

Unstage(c) ==
  /\ pc[c] = "unstage"
  /\ Remove(c)
  /\ Goto(c, "meta")
  /\ UNCHANGED <<source, copied, content, meta, faults>>

\* The rename replaces whatever has the name.
Rename(c) ==
  /\ pc[c] = "rename"
  /\ content' = [content EXCEPT ![Bytes(c)] = c]
  /\ staging' = staging \ {c}
  /\ Goto(c, "meta")
  /\ UNCHANGED <<source, copied, meta, stuck, faults>>

\* The sidecar is truncated, then written.
OpenMeta(c) ==
  /\ pc[c] = "meta"
  /\ meta' = [meta EXCEPT ![Bytes(c)] = "empty"]
  /\ Goto(c, "fill")
  /\ UNCHANGED <<source, copied, staging, content, stuck, faults>>

FillMeta(c) ==
  /\ pc[c] = "fill"
  /\ meta' = [meta EXCEPT ![Bytes(c)] = "whole"]
  /\ Goto(c, "done")
  /\ UNCHANGED <<source, copied, staging, content, stuck, faults>>

\* The process stops, the worker is aborted, or the file system refuses an
\* operation past the copy: the call ends where it is.
Cut(c) ==
  /\ pc[c] \notin {"idle", "done", "failed", "cut"} /\ faults < MaxFaults
  /\ faults' = faults + 1
  /\ Goto(c, "cut")
  /\ UNCHANGED <<source, copied, fileVars>>

Step(c) == \/ Begin(c) \/ CopyChunk(c) \/ BreakSource(c) \/ EndSource(c) \/ Look(c) \/ Link(c)
           \/ Unstage(c) \/ Rename(c) \/ OpenMeta(c) \/ FillMeta(c) \/ Cut(c)

Next == \E c \in Call : Step(c)

Spec == Init /\ [][Next]_vars

-----------------------------------------------------------------------------
(* verify: the sidecar, then the bytes *)

Verifies(k) == meta[k] = "whole" /\ content[k] # NoCall /\ Bytes(content[k]) = k

-----------------------------------------------------------------------------
TypeOK ==
  /\ pc \in [Call -> Stage]
  /\ source \in [Call -> Document]
  /\ copied \in [Call -> 0..Budget]
  /\ staging \subseteq Call /\ stuck \subseteq Call
  /\ content \in [Digest -> Call \cup {NoCall}]
  /\ meta \in [Digest -> Sidecar]
  /\ faults \in 0..MaxFaults

\* A content name only ever leads to the whole document it names, whatever breaks,
\* races or stops; a hard link does not let a later write change it (store).
ContentIsWhole ==
  \A k \in Digest : content[k] # NoCall =>
    Bytes(content[k]) = k /\ k.n = Size[k.doc] /\ pc[content[k]] # "copy"

Quiet == \A c \in Call : pc[c] \in {"idle", "done", "failed", "cut"}

\* A call of the same bytes ended between their publication and the sidecar.
Torn(k) == \E c \in Call : pc[c] = "cut" /\ Bytes(c) = k /\ meta[k] # "whole"

\* A reference that was returned verifies once nobody is storing, however the calls
\* of the same bytes overtook one another, unless one was cut short before the
\* sidecar was written (store, verify).
ReturnedVerifies ==
  Quiet => \A c \in Call : pc[c] = "done" => Verifies(Bytes(c)) \/ Torn(Bytes(c))

\* Only a call that was cut leaves its staging file, or a removal that was refused: a
\* broken download, an overrun budget, known bytes and a lost race do not (the removal
\* after the copy, and on either way to publication).
StagingIsSwept == \A c \in staging : pc[c] \in {"done", "failed"} => c \in stuck

\* What is stored under a digest is whole, what store returns verifies, and what
\* store gives up leaves nothing behind that it could remove (store, verify).
StoreIsKept == TypeOK /\ ContentIsWhole /\ ReturnedVerifies /\ StagingIsSwept

=============================================================================
