------------------------------ MODULE Documents ------------------------------
(***************************************************************************)
(* One markdown document with frontmatter and those who rewrite it: the    *)
(* PRDStore through a temporary file that all share, WritePRDFrontmatter   *)
(* and choo cleanup --reset-state in place.  Nobody takes a lock.  Files   *)
(* are inodes: a write goes to the inode that was opened, whatever its     *)
(* name is by then.                                                        *)
(***************************************************************************)
EXTENDS Naturals

CONSTANTS
  Writers,    \* one update each
  Original,   \* the inode of the document at the start
  MaxEdits    \* bound on edits of the body by the user

DocumentsAssumption == Original \notin Writers /\ MaxEdits \in Nat

VARIABLES
  kind,     \* writer -> "rename", "cached" or "reset"
  files,    \* inode -> content: [closed, updates, body]
  path,     \* the inode of the document
  tmp,      \* of the temporary file; Original when there is none
  pc,       \* writer -> where it stands
  kept,     \* writer -> the content it writes
  opened,   \* writer -> the inode it has opened
  cache,    \* the PRDRepository's PRD; not closed when it has none
  edits,    \* edits of the user so far
  raced     \* whether two updates, or an update and an edit, overlapped

names == <<path, tmp>>
vars == <<kind, files, names, pc, kept, opened, cache, edits, raced>>

(* UpdateStatus and UpdateState write a temporary file; the others write   *)
(* in place, WritePRDFrontmatter with the fields of the repository's PRD.  *)
Renaming == {w \in Writers : kind[w] = "rename"}
Caching == {w \in Writers : kind[w] = "cached"}

Inodes == Writers \union {Original}

(* Content whose frontmatter is not closed does not parse.                 *)
Empty == [closed |-> FALSE, updates |-> {}, body |-> 0]

(* What is left of c by a write that ends early: the rest of the body may  *)
(* be missing from a document that still parses.                           *)
Lost == MaxEdits + 1
Prefixes(c) == {Empty, [c EXCEPT !.body = Lost]}

Init ==
  /\ kind \in [Writers -> {"rename", "cached", "reset"}]
  /\ files = [f \in Inodes |-> [Empty EXCEPT !.closed = f = Original]]
  /\ path = Original /\ tmp = Original
  /\ pc = [w \in Writers |-> "idle"]
  /\ kept = [w \in Writers |-> Empty] /\ opened = [w \in Writers |-> Original]
  /\ cache = Empty /\ edits = 0 /\ raced = FALSE

Document == files[path]
Midway(w) == pc[w] \in {"loaded", "opened", "written"}
Goto(w, to) == pc' = [pc EXCEPT ![w] = to]

-----------------------------------------------------------------------------
(* The updates.                                                            *)

(* The fields a writer goes on from: those of the file, or of the cache.   *)
Fields(w) == (IF w \in Caching THEN cache ELSE Document).updates

Load(w) ==
  /\ pc[w] = "idle"
  /\ w \in Caching => cache.closed
  /\ IF Document.closed
     THEN /\ kept' = [kept EXCEPT ![w] = [Document EXCEPT !.updates = Fields(w) \union {w}]]
          /\ Goto(w, "loaded")
          /\ raced' = (raced \/ Fields(w) # Document.updates \/ \E v \in Writers : Midway(v))
     ELSE Goto(w, "failed") /\ UNCHANGED <<kept, raced>>
  /\ cache' = IF w \in Caching THEN [cache EXCEPT !.updates = @ \union {w}] ELSE cache
  /\ UNCHANGED <<kind, files, names, opened, edits>>

\* Mutant of Target: UpdateStatus writes the document in place.
TargetInPlace(w) == path

(* The temporary file has one name: a second writer opens the same one.    *)
Target(w) == IF w \notin Renaming THEN path ELSE IF tmp = Original THEN w ELSE tmp

(* WriteFile opens and truncates.                                          *)
Open(w) ==
  /\ pc[w] = "loaded" /\ Goto(w, "opened")
  /\ opened' = [opened EXCEPT ![w] = Target(w)]
  /\ files' = [files EXCEPT ![Target(w)] = Empty]
  /\ tmp' = IF w \in Renaming THEN Target(w) ELSE tmp
  /\ UNCHANGED <<kind, path, kept, cache, edits, raced>>

(* An error of the write leaves a temporary file where it is.              *)
Write(w) ==
  /\ pc[w] = "opened"
  /\ \/ /\ files' = [files EXCEPT ![opened[w]] = kept[w]]
        /\ Goto(w, IF w \in Renaming THEN "written" ELSE "done")
     \/ /\ \E c \in Prefixes(kept[w]) : files' = [files EXCEPT ![opened[w]] = c]
        /\ Goto(w, "torn")
  /\ UNCHANGED <<kind, names, kept, opened, cache, edits, raced>>

(* Another writer may have renamed the file under its feet: ENOENT.        *)
Rename(w) ==
  /\ pc[w] = "written" /\ tmp' = Original
  /\ \/ tmp # Original /\ path' = tmp /\ Goto(w, "done")
     \/ UNCHANGED path /\ Goto(w, "failed")
  /\ UNCHANGED <<kind, files, kept, opened, cache, edits, raced>>

Crash(w) ==
  /\ \/ pc[w] \in {"loaded", "written"} /\ Goto(w, "failed") /\ UNCHANGED files
     \/ /\ pc[w] = "opened" /\ Goto(w, "torn")
        /\ \E c \in Prefixes(kept[w]) : files' = [files EXCEPT ![opened[w]] = c]
  /\ UNCHANGED <<kind, names, kept, opened, cache, edits, raced>>

-----------------------------------------------------------------------------
(* Refresh: a PRD that does not parse is left out.                         *)
Refresh ==
  /\ cache' = Document
  /\ UNCHANGED <<kind, files, names, pc, kept, opened, edits, raced>>

(* External: the user saves the body.                                      *)
Edit ==
  /\ Document.closed /\ edits < MaxEdits
  /\ edits' = edits + 1
  /\ files' = [files EXCEPT ![path].body = edits + 1]
  /\ raced' = (raced \/ \E w \in Writers : Midway(w))
  /\ UNCHANGED <<kind, names, pc, kept, opened, cache>>

Next ==
  \/ \E w \in Writers : Load(w) \/ Open(w) \/ Write(w) \/ Rename(w) \/ Crash(w)
  \/ Refresh \/ Edit

Spec == Init /\ [][Next]_vars

-----------------------------------------------------------------------------
(* Properties.                                                             *)

(* An in-place writer is at work, or ended while the document was open.    *)
Torn == \E w \in Writers \ Renaming : pc[w] \in {"opened", "torn"}

(* As long as updates and edits come one after the other, each from fresh  *)
(* fields, every reader finds a document that parses, with the user's last *)
(* body and every update that returned without an error, whatever update   *)
(* failed or was killed on the way; only a write in place can leave it     *)
(* torn.                                                                   *)
UpdatesAreKept ==
  raced \/ Torn \/
    /\ Document.closed /\ Document.body = edits
    /\ \A w \in Writers : pc[w] = "done" => w \in Document.updates
=============================================================================
