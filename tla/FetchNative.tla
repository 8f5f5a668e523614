----------------------------- MODULE FetchNative -----------------------------
(***************************************************************************)
(* tools/fetch_native.py: fetch one native archive into a cache directory, *)
(* verify it against the pin of NATIVE_ARTIFACT.toml, unpack it, answer    *)
(* the directory.  Any number of processes may run it over one cache, and  *)
(* any of them may be killed between two of its file operations.           *)
(*                                                                         *)
(* Of the cache only the names of one asset are modelled: the shared       *)
(* "<asset>.part", the archive, and the unpacked tree.  A file is a        *)
(* function from its blocks to what each block holds.  Two processes that  *)
(* open one name write one file, whatever the file is called later: fd[p]  *)
(* says under which name the file that p writes can be reached now.        *)
(***************************************************************************)
EXTENDS Naturals

CONSTANTS
  Proc,       \* processes running the tool over one cache directory
  Absent,     \* what a name holds when there is no such file
  N,          \* blocks (chunks read from the response) of the pinned archive
  MaxKills,   \* bound: processes killed before they end
  MaxRots,    \* bound: times the cached archive changes on disk
  MaxFaults   \* bound: downloads the server spoils (an error, or other bytes)

VARIABLES
  file,    \* what "part" and "archive" hold, or Absent
  tree,    \* the entries of the extracted directory that exist
  treeOf,  \* the body the tree was unpacked from
  fd,      \* per process: where the file it downloads into is now
  pos,     \* per process: blocks received
  body,    \* per process: the body the server sends it
  staged,  \* per process: the body unpacked in its private staging directory
  pc,      \* per process: where fetch() stands
  agrees,  \* does LINKINFO.json say what the manifest row says?
  cut,     \* history: a kill interrupted a removal of the tree
  changed, \* history: for whom the archive changed after they hashed it
  kills, rots, faults

disk == <<file, tree, treeOf>>
mine == <<fd, pos, body, staged, pc>>
counters == <<kills, rots, faults>>
history == <<cut, changed>>
vars == <<file, tree, treeOf, fd, pos, body, staged, pc, agrees, history, counters>>

Block == 1 .. N
Body == {"pinned", "moved"}            \* "moved": any bytes that are not the pin's
Data == [Block -> Body \cup {"hole", "rot"}]
Empty == [b \in Block |-> "hole"]

ASSUME FetchAssumption ==
  /\ N \in Nat \ {0}
  /\ MaxKills \in Nat /\ MaxRots \in Nat /\ MaxFaults \in Nat
  /\ Absent \notin Data

Pinned(data) == data = [b \in Block |-> "pinned"]

\* The extracted directory: itself, the one top-level directory of the
\* archive, and below that the libraries and metadata/LINKINFO.json.
Whole == {"dir", "top", "lib", "linkinfo"}
Leaves(t) == IF t \cap {"lib", "linkinfo"} # {} THEN t \cap {"lib", "linkinfo"}
             ELSE IF "top" \in t THEN {"top"} ELSE t

\* A process that has not run the tool yet is away; one that was killed is idle.
Ended == {"away", "idle", "done", "refused"}
Removing == {"purge", "clear", "drop"}
Control == Ended \cup Removing \cup
           {"check", "discard", "get", "stream", "rename", "look", "cached", "unpack", "place", "final"}

TypeOK ==
  /\ file \in [{"part", "archive"} -> Data \cup {Absent}]
  /\ tree \subseteq Whole /\ treeOf \in Body
  /\ fd \in [Proc -> {"none", "part", "archive", "orphan"}]
  /\ pos \in [Proc -> 0 .. N] /\ body \in [Proc -> Body]
  /\ staged \in [Proc -> Body \cup {"none"}]
  /\ pc \in [Proc -> Control]
  /\ agrees \in BOOLEAN /\ cut \in BOOLEAN /\ changed \subseteq Proc
  /\ kills \in 0 .. MaxKills /\ rots \in 0 .. MaxRots /\ faults \in 0 .. MaxFaults

\* A cache before the first fetch, or with a verified archive already in it.
Init ==
  /\ file \in [{"part"} \cup {"archive"} -> {Absent, [b \in Block |-> "pinned"]}]
  /\ file["part"] = Absent
  /\ tree = {} /\ treeOf = "pinned"
  /\ fd = [p \in Proc |-> "none"] /\ pos = [p \in Proc |-> 0]
  /\ body = [p \in Proc |-> "pinned"] /\ staged = [p \in Proc |-> "none"]
  /\ pc = [p \in Proc |-> "away"]
  /\ agrees \in BOOLEAN /\ cut = FALSE /\ changed = {}
  /\ kills = 0 /\ rots = 0 /\ faults = 0

-----------------------------------------------------------------------------
\* Nobody else has run the tool.
Alone(p) == \A q \in Proc : q = p \/ pc[q] = "away"

Goto(p, label) == pc' = [pc EXCEPT ![p] = label]

\* Path.unlink(missing_ok=True): the name goes, open descriptors keep the file.
Unlinked(name) == [file EXCEPT ![name] = Absent]
Cut(name, fds) == [q \in Proc |-> IF fds[q] = name THEN "orphan" ELSE fds[q]]

\* A caller runs the tool, for the first time or again.
Start(p) ==
  /\ pc[p] \in Ended
  /\ Goto(p, "check")
  /\ UNCHANGED <<disk, fd, pos, body, staged, agrees, history, counters>>

\* Mutant: a cached archive is not hashed again.
CheckArchiveKeepsIt(p) ==
  /\ pc[p] = "check"
  /\ Goto(p, "get")
  /\ changed' = changed \ {p}
  /\ UNCHANGED <<disk, fd, pos, body, staged, agrees, cut, counters>>

\* The cached archive is hashed, and is trusted or about to be discarded.
CheckArchive(p) ==
  /\ pc[p] = "check"
  /\ Goto(p, IF file["archive"] # Absent /\ ~Pinned(file["archive"]) THEN "discard" ELSE "get")
  /\ changed' = changed \ {p}
  /\ UNCHANGED <<disk, fd, pos, body, staged, agrees, cut, counters>>

\* Mutant: the archive is discarded and the tree unpacked from it stays.
DiscardKeepsTree(p) ==
  /\ pc[p] = "discard" /\ file["archive"] # Absent
  /\ file' = Unlinked("archive") /\ fd' = Cut("archive", fd)
  /\ Goto(p, "get")
  /\ UNCHANGED <<tree, treeOf, pos, body, staged, agrees, history, counters>>

\* Whatever the name holds by now is unlinked, and the tree goes with it.
\* unlink() raises when another process has discarded the archive first.
Discard(p) ==
  /\ pc[p] = "discard"
  /\ IF file["archive"] # Absent
     THEN /\ file' = Unlinked("archive")
          /\ fd' = Cut("archive", fd)
          /\ Goto(p, "purge")
     ELSE /\ UNCHANGED <<file, fd>>
          /\ Goto(p, "refused")
  /\ UNCHANGED <<tree, treeOf, pos, body, staged, agrees, history, counters>>

\* shutil.rmtree: one entry at a time, contents before their directory.
RemoveEntry(p) ==
  /\ pc[p] \in Removing
  /\ \E e \in Leaves(tree) : tree' = tree \ {e}
  /\ UNCHANGED <<file, treeOf, mine, agrees, history, counters>>

Removed(p) ==
  /\ pc[p] \in Removing /\ tree = {}
  /\ Goto(p, CASE pc[p] = "purge" -> "get"
               [] pc[p] = "clear" -> "unpack"
               [] pc[p] = "drop"  -> "refused")
  /\ UNCHANGED <<disk, fd, pos, body, staged, agrees, history, counters>>

\* Line 230 removes without ignore_errors: it raises when another process has
\* removed the directory first.
RemovedByAnother(p) ==
  /\ pc[p] = "clear" /\ tree = {} /\ ~Alone(p)
  /\ Goto(p, "refused")
  /\ UNCHANGED <<disk, fd, pos, body, staged, agrees, history, counters>>

HaveArchive(p) ==
  /\ pc[p] = "get" /\ file["archive"] # Absent
  /\ Goto(p, "look")
  /\ UNCHANGED <<disk, fd, pos, body, staged, agrees, history, counters>>

\* urlopen answered; part.open("wb") creates the shared part file, or
\* truncates the one another process is writing.
Connect(p) ==
  /\ pc[p] = "get" /\ file["archive"] = Absent
  /\ file' = [file EXCEPT !["part"] = Empty]
  /\ fd' = [fd EXCEPT ![p] = "part"]
  /\ pos' = [pos EXCEPT ![p] = 0]
  /\ \E b \in Body :
       /\ b = "moved" => faults < MaxFaults
       /\ body' = [body EXCEPT ![p] = b]
       /\ faults' = IF b = "moved" THEN faults + 1 ELSE faults
  /\ Goto(p, "stream")
  /\ UNCHANGED <<tree, treeOf, staged, agrees, history, kills, rots>>

\* One chunk: hashed as received, written at this descriptor's own offset.
Receive(p) ==
  /\ pc[p] = "stream" /\ pos[p] < N
  /\ pos' = [pos EXCEPT ![p] = @ + 1]
  /\ file' = IF fd[p] = "orphan" THEN file
             ELSE [file EXCEPT ![fd[p]][pos[p] + 1] = body[p]]
  /\ UNCHANGED <<tree, treeOf, fd, body, staged, pc, agrees, history, counters>>

\* The server refuses, the connection breaks, or the body is over MAX_BYTES.
\* `part` is unlinked by its name, whoever is writing it.
DownloadFails(p) ==
  /\ \/ pc[p] = "get" /\ file["archive"] = Absent
     \/ pc[p] = "stream"
  /\ faults < MaxFaults /\ faults' = faults + 1
  /\ file' = Unlinked("part")
  /\ fd' = [Cut("part", fd) EXCEPT ![p] = "none"]
  /\ Goto(p, "refused")
  /\ UNCHANGED <<tree, treeOf, pos, body, staged, agrees, history, kills, rots>>

\* Mutant: a body cut short is taken for the archive.
DownloadCutShortAccepted(p) ==
  /\ pc[p] = "stream" /\ body[p] = "pinned"
  /\ fd' = [fd EXCEPT ![p] = "none"]
  /\ Goto(p, "rename")
  /\ UNCHANGED <<disk, pos, body, staged, agrees, history, counters>>

\* End of the body.  The hash is of what arrived, not of what is on disk.
DownloadMatches(p) ==
  /\ pc[p] = "stream" /\ pos[p] = N /\ body[p] = "pinned"
  /\ fd' = [fd EXCEPT ![p] = "none"]
  /\ Goto(p, "rename")
  /\ UNCHANGED <<disk, pos, body, staged, agrees, history, counters>>

\* Mutant: a download that differs is refused and left in the cache.
DownloadDiffersKeepsPart(p) ==
  /\ pc[p] = "stream" /\ pos[p] = N /\ body[p] # "pinned"
  /\ fd' = [fd EXCEPT ![p] = "none"]
  /\ Goto(p, "refused")
  /\ UNCHANGED <<disk, pos, body, staged, agrees, history, counters>>

\* What differs from the pin, or was cut short, is unlinked and refused.
DownloadDiffers(p) ==
  /\ pc[p] = "stream"
  /\ \/ pos[p] = N /\ body[p] # "pinned" /\ faults' = faults
     \/ pos[p] < N /\ faults < MaxFaults /\ faults' = faults + 1  \* cut short
  /\ file' = Unlinked("part")
  /\ fd' = [Cut("part", fd) EXCEPT ![p] = "none"]
  /\ Goto(p, "refused")
  /\ UNCHANGED <<tree, treeOf, pos, body, staged, agrees, history, kills, rots>>

\* part.replace(archive): by name; a descriptor open on the part file now
\* writes the archive.  Without a part file it raises, and main() answers 1.
Rename(p) ==
  /\ pc[p] = "rename"
  /\ IF file["part"] = Absent
     THEN /\ Goto(p, "refused") /\ UNCHANGED <<file, fd>>
     ELSE /\ file' = [part |-> Absent, archive |-> file["part"]]
          /\ fd' = [q \in Proc |-> CASE fd[q] = "part" -> "archive"
                                     [] fd[q] = "archive" -> "orphan"
                                     [] OTHER -> fd[q]]
          /\ Goto(p, "look")
  /\ UNCHANGED <<tree, treeOf, pos, body, staged, agrees, history, counters>>

\* An extracted directory with exactly one top-level directory is reused; one
\* without is removed.
Look(p) ==
  /\ pc[p] = "look"
  /\ Goto(p, IF tree = {} THEN "unpack" ELSE IF "top" \in tree THEN "cached" ELSE "clear")
  /\ UNCHANGED <<disk, fd, pos, body, staged, agrees, history, counters>>

\* check_linkinfo: what the manifest row says of the pinned archive, LINKINFO.json
\* of that archive says or does not; of other bytes either may be the case.
Linkinfo == {ok \in BOOLEAN : ok => "linkinfo" \in tree}
Certified(ok) == "linkinfo" \in tree /\ treeOf = "pinned" => ok = agrees

\* check_linkinfo on the reused tree.  A refusal here removes nothing.
Reuse(p) ==
  /\ pc[p] = "cached"
  /\ \E ok \in Linkinfo : Certified(ok) /\ Goto(p, IF ok THEN "done" ELSE "refused")
  /\ UNCHANGED <<disk, fd, pos, body, staged, agrees, history, counters>>

\* Mutant: unpacks under the final name, without a staging directory.
UnpackInPlace(p) ==
  /\ pc[p] = "unpack" /\ tree = {}
  /\ tree' = {"dir", "top", "linkinfo"} /\ treeOf' = treeOf
  /\ Goto(p, "look")
  /\ UNCHANGED <<file, fd, pos, body, staged, agrees, history, counters>>

\* extract() into the process's own staging directory.  Nothing is hashed here:
\* the archive is what its name holds by now.  The pinned bytes unpack; others may,
\* gzip and tar willing, or are refused and staging is removed.
Unpack(p) ==
  /\ pc[p] = "unpack"
  /\ \/ /\ file["archive"] # Absent
        /\ staged' = [staged EXCEPT ![p] = IF Pinned(file["archive"]) THEN "pinned" ELSE "moved"]
        /\ Goto(p, "place")
     \/ /\ file["archive"] = Absent \/ ~Pinned(file["archive"])
        /\ Goto(p, "refused") /\ UNCHANGED staged
  /\ UNCHANGED <<disk, fd, pos, body, agrees, history, counters>>

\* Rename staging into place: raises over a directory that is not empty.
\* Either way `finally` removes staging.  A process whose rmtree had already
\* listed the directory this one replaces fails to remove it: an error that
\* ignore_errors hides, or, where it is not given, a refusal.
Place(p) ==
  /\ pc[p] = "place"
  /\ \/ /\ tree \subseteq {"dir"}
        /\ tree' = Whole /\ treeOf' = staged[p]
        /\ \E listed \in SUBSET {q \in Proc : pc[q] \in Removing} :
             pc' = [q \in Proc |-> IF q = p THEN "final"
                                  ELSE IF q \notin listed THEN pc[q]
                                  ELSE IF pc[q] = "purge" THEN "get" ELSE "refused"]
     \/ /\ ~(tree \subseteq {"dir"})
        /\ UNCHANGED <<tree, treeOf>> /\ Goto(p, "refused")
  /\ staged' = [staged EXCEPT ![p] = "none"]
  /\ UNCHANGED <<file, fd, pos, body, agrees, history, counters>>

\* check_linkinfo on the tree just placed; a refusal removes it.
Final(p) ==
  /\ pc[p] = "final"
  /\ \E ok \in Linkinfo :
       /\ Certified(ok)
       /\ Goto(p, IF "top" \notin tree THEN "refused" ELSE IF ok THEN "done" ELSE "drop")
  /\ UNCHANGED <<disk, fd, pos, body, staged, agrees, history, counters>>

\* The process dies: its descriptor closes, its staging directory is left
\* behind under a name nobody looks up again, everything on disk stays.
Kill(p) ==
  /\ pc[p] \notin Ended
  /\ kills < MaxKills /\ kills' = kills + 1
  /\ cut' = (cut \/ pc[p] \in Removing)
  /\ fd' = [fd EXCEPT ![p] = "none"]
  /\ staged' = [staged EXCEPT ![p] = "none"]
  /\ Goto(p, "idle")
  /\ UNCHANGED <<disk, pos, body, agrees, changed, rots, faults>>

\* The cached archive changes: a block of it decays, or somebody puts other bytes
\* in its place.  A fetch that has hashed it by now does not hash it again.
Rot ==
  /\ rots < MaxRots /\ rots' = rots + 1
  /\ file["archive"] # Absent
  /\ \E data \in {[file["archive"] EXCEPT ![b] = "rot"] : b \in Block}
                \cup {[b \in Block |-> "moved"]} :
       file' = [file EXCEPT !["archive"] = data]
  /\ changed' = Proc
  /\ UNCHANGED <<tree, treeOf, mine, agrees, cut, kills, faults>>

Step(p) ==
  \/ CheckArchive(p) \/ Discard(p) \/ RemoveEntry(p) \/ Removed(p) \/ RemovedByAnother(p) \/ HaveArchive(p)
  \/ Connect(p) \/ Receive(p) \/ DownloadFails(p) \/ DownloadMatches(p)
  \/ DownloadDiffers(p) \/ Rename(p) \/ Look(p) \/ Reuse(p) \/ Unpack(p)
  \/ Place(p) \/ Final(p)

Next == Rot \/ \E p \in Proc : Start(p) \/ Step(p) \/ Kill(p)

Spec == Init /\ [][Next]_vars

\* The everyday start: every process finds a verified archive in the cache.
WarmInit == Init /\ file["archive"] # Absent
WarmSpec == WarmInit /\ [][Next]_vars

\* A running process takes its next step, and a caller that was refused or
\* whose process was killed runs the tool again.
Again(p) == pc[p] \notin {"away", "done"} /\ Start(p)
FairSpec == Spec /\ \A p \in Proc : WF_vars(Step(p)) /\ WF_vars(Again(p))

-----------------------------------------------------------------------------
\* Lines 14-17: "only a match is renamed into place".  The bytes a process
\* renames to the archive's name are the pinned bytes, as long as no other has
\* written the part file.
OnlyAMatchIsRenamed ==
  [][\A p \in Proc :
       Alone(p) /\ pc[p] = "rename" /\ pc'[p] = "look" => Pinned(file'["archive"])]_vars

\* Lines 14-17: a fetch verifies, then unpacks, and what it verified is not what it
\* unpacks when the archive changes in between.  A lone fetch answers a tree of
\* other bytes only in that very run: a tree unpacked from an archive that had
\* changed is found out by the next fetch that hashes the archive, and is gone
\* before one is answered - unless a kill interrupted its removal.
AnswersArePinned ==
  [][\A p \in Proc :
       Alone(p) /\ pc[p] # "done" /\ pc'[p] = "done" /\ p \notin changed /\ ~cut => treeOf = "pinned"]_vars

\* Line 234: "an interrupted extraction never leaves a directory that looks
\* finished".  A tree that would be reused is whole, unless a removal of it is
\* running or was killed half way.
LooksFinishedIsFinished ==
  "top" \in tree => \/ tree = Whole
                    \/ cut
                    \/ \E p \in Proc : pc[p] \in Removing

\* When every fetch has ended by itself, no part file is left in the cache,
\* whichever of them unlinked, renamed or lost it.
NoDebris ==
  kills = 0 /\ (\A p \in Proc : pc[p] \in Ended) => file["part"] = Absent

\* A lone fetch that is refused or killed is run again, and once the faults end
\* the directory is answered: no state of the cache is one it cannot leave,
\* but for a manifest that disagrees with the archive and for a removal that
\* was killed half way.
EventuallyAnswered ==
  \A p \in Proc :
    Alone(p) /\ pc[p] = "check" ~> (pc[p] = "done" \/ cut \/ ~agrees \/ ~Alone(p))

\* Lines 19-21: on success stdout names "the single top-level directory inside
\* the archive, which holds lib/, include/ and metadata/".
AnswerHoldsEverything ==
  [][\A p \in Proc : pc[p] # "done" /\ pc'[p] = "done" => tree = Whole]_vars

\* As long as an archive that was verified once keeps its bytes: nobody downloads
\* then and nobody removes a tree that was placed, whoever runs or is killed.
WarmAnswersHoldEverything ==
  [][rots' = 0 => \A p \in Proc : pc[p] # "done" /\ pc'[p] = "done" => tree = Whole]_vars
=============================================================================
