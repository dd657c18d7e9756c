---------------------------- MODULE CatalogueProofs ----------------------------
(***************************************************************************)
(* What is proved of the catalogue for every set of fingerprints, openings *)
(* and directories, and whichever writes fail.                             *)
(***************************************************************************)
EXTENDS Catalogue, TLAPS

\* That what is remembered as written is on disk is kept by flush only because
\* nothing is remembered of an entry that does not exist.
CatalogueInv == CatalogueTypeOK /\ WrittenIsOnDisk

Entries == [Ids -> Observation \cup {NoEntry}]

-----------------------------------------------------------------------------
(* The operators the steps are built from.                                 *)

\* Counting a field up changes no opening, and makes or loses no entry.
LEMMA NotedKeeps ==
  ASSUME entries \in Entries, NEW i \in Ids,
         NEW field \in {"requests", "refused", "no_request"}
  PROVE  /\ Noted(i, field) \in Entries
         /\ \A j \in Ids : Noted(i, field)[j] = NoEntry <=> entries[j] = NoEntry
         /\ \A j \in Ids : entries[j] # NoEntry => Noted(i, field)[j].h2 = entries[j].h2
<1>1. CASE entries[i] = NoEntry
  BY <1>1 DEF Noted
<1>2. CASE entries[i] # NoEntry
  <2> DEFINE entry == [entries[i] EXCEPT ![field] = @ + 1]
  <2>1. entries[i] \in Observation
    BY <1>2 DEF Entries
  <2>2. entry \in Observation /\ entry.h2 = entries[i].h2
    BY <2>1 DEF Observation
  <2>3. Noted(i, field) = [entries EXCEPT ![i] = entry]
    BY <1>2 DEF Noted
  <2>4. entry # NoEntry
    BY <2>2, CatalogueConstants
  <2> HIDE DEF entry
  <2> QED BY <1>2, <2>2, <2>3, <2>4 DEF Entries
<1> QED BY <1>1, <1>2

\* Flushing with entries that agree with the present ones, and a memory of no
\* more than is written, leaves a memory of what is on disk.
LEMMA FlushKeepsInv ==
  ASSUME CatalogueInv, NEW seen \in Entries, NEW wr \in SUBSET written,
         NEW d \in Dirs \cup {NoDir},
         \A i \in Ids : entries[i] # NoEntry => seen[i] # NoEntry /\ seen[i].h2 = entries[i].h2,
         Flush(seen, wr, d)
  PROVE  /\ entries' \in Entries /\ written' \subseteq Seen'
         /\ disk' \in [Dirs -> [Ids -> Observation \cup {NoEntry, Torn}]]
         /\ WrittenIsOnDisk'
<1> DEFINE todo == IF d = NoDir THEN {} ELSE {i \in Ids : seen[i] # NoEntry} \ wr
<1> DEFINE Written(bad, torn) ==
             /\ entries' = seen
             /\ written' = wr \cup (todo \ bad)
             /\ disk' = [e \in Dirs |-> [i \in Ids |->
                            IF e # d \/ i \notin todo THEN disk[e][i]
                            ELSE IF i \in torn THEN Torn
                            ELSE IF i \in bad THEN disk[e][i]
                            ELSE seen[i]]]
<1>a. PICK bad \in SUBSET Faulty : \E torn \in SUBSET bad : Written(bad, torn)
  BY Zenon DEF Flush
<1>1. PICK torn \in SUBSET bad : Written(bad, torn)
  BY <1>a
<1>2. todo \subseteq {i \in Ids : seen[i] # NoEntry} /\ (todo # {} => d \in Dirs)
  OBVIOUS
<1>3. written \subseteq {i \in Ids : entries[i] # NoEntry}
  BY DEF CatalogueInv, CatalogueTypeOK, Seen
<1>4. \A i \in todo : i \notin wr
  OBVIOUS
<1> HIDE DEF todo
<1>5. written' \subseteq Seen'
  BY <1>1, <1>2, <1>3 DEF Seen
<1>6. disk' \in [Dirs -> [Ids -> Observation \cup {NoEntry, Torn}]]
  BY <1>1, <1>2 DEF CatalogueInv, CatalogueTypeOK, Entries
<1>7. ASSUME NEW i \in wr
      PROVE  \E e \in Dirs : /\ disk'[e][i] \notin {NoEntry, Torn}
                             /\ disk'[e][i].h2 = entries'[i].h2
  <2>1. PICK e \in Dirs : disk[e][i] \notin {NoEntry, Torn} /\ disk[e][i].h2 = entries[i].h2
    BY DEF CatalogueInv, WrittenIsOnDisk
  <2>2. i \in Ids /\ disk'[e][i] = disk[e][i]
    BY <1>1, <1>3, <1>4
  <2> QED BY <1>1, <1>3, <2>1, <2>2
<1>8. ASSUME NEW i \in todo \ bad
      PROVE  \E e \in Dirs : /\ disk'[e][i] \notin {NoEntry, Torn}
                             /\ disk'[e][i].h2 = entries'[i].h2
  <2>1. d \in Dirs /\ disk'[d][i] = seen[i] /\ seen[i] # NoEntry
    BY <1>1, <1>2
  <2>2. seen[i] # Torn
    BY <1>2, <2>1, CatalogueConstants DEF Entries
  <2> QED BY <1>1, <2>1, <2>2
<1>9. WrittenIsOnDisk'
  BY <1>1, <1>7, <1>8 DEF WrittenIsOnDisk
<1> QED BY <1>1, <1>5, <1>6, <1>9

\* A step that changes entries without their openings keeps the invariant.
LEMMA CountingKeepsInv ==
  ASSUME CatalogueInv, entries' \in Entries, UNCHANGED <<written, directory, disk, runs>>,
         phase' \in {"running", "done"},
         \A i \in Ids : entries[i] # NoEntry => entries'[i] # NoEntry
                                                /\ entries'[i].h2 = entries[i].h2
  PROVE  CatalogueInv'
  BY DEF CatalogueInv, CatalogueTypeOK, WrittenIsOnDisk, Seen, Entries

-----------------------------------------------------------------------------

LEMMA CatalogueInvInit == Init => CatalogueInv
  BY CatalogueConstants DEF Init, CatalogueInv, CatalogueTypeOK, WrittenIsOnDisk, Seen

\* What the hooks and commands may do to the catalogue, in whatever order.
Operation ==
    \/ UNCHANGED catalogueVars
    \/ \E i \in Ids : NoteHello(i) \/ NoteRequest(i) \/ NoteRefused(i) \/ RecordObserved(i)
    \/ \E i \in Ids, p \in Prefaces : NoteH2(i, p)
    \/ FinalFlush
    \/ \E d \in Dirs : CmdCatalogueSave(d)
    \/ \E d \in Dirs \cup {NoDir} : SetDirectory(d)

LEMMA OperationKeepsInv ==
  ASSUME CatalogueInv, Operation, phase' \in {"running", "done"}, UNCHANGED runs
  PROVE  CatalogueInv'
<1>t. entries \in Entries /\ written \subseteq Seen /\ directory \in Dirs \cup {NoDir}
      /\ disk \in [Dirs -> [Ids -> Observation \cup {NoEntry, Torn}]]
      /\ phase \in {"running", "done"} /\ runs \in 1 .. MaxRuns
  BY DEF CatalogueInv, CatalogueTypeOK, Entries
<1>1. CASE UNCHANGED catalogueVars
  BY <1>1 DEF catalogueVars, CatalogueInv, CatalogueTypeOK, WrittenIsOnDisk, Seen
<1>2. ASSUME NEW i \in Ids, NoteHello(i) PROVE CatalogueInv'
  <2> DEFINE new == IF entries[i] = NoEntry THEN [Unseen EXCEPT !.connections = 1]
                    ELSE [entries[i] EXCEPT !.connections = @ + 1]
  <2>1. entries' = [entries EXCEPT ![i] = new]
    BY <1>2 DEF NoteHello
  <2>2. new \in Observation /\ (entries[i] # NoEntry => new.h2 = entries[i].h2)
    BY <1>t DEF Entries, Observation, Unseen
  <2>3. new # NoEntry
    BY <2>2, CatalogueConstants
  <2> HIDE DEF new
  <2>4. /\ entries' \in Entries
        /\ \A j \in Ids : entries[j] # NoEntry => entries'[j] # NoEntry
                                                  /\ entries'[j].h2 = entries[j].h2
    BY <1>t, <2>1, <2>2, <2>3 DEF Entries
  <2> QED BY <1>2, <2>4, CountingKeepsInv DEF NoteHello
<1>3. ASSUME NEW i \in Ids, NoteRequest(i) \/ NoteRefused(i)
      PROVE  CatalogueInv'
  <2>1. PICK field \in {"requests", "refused"} : entries' = Noted(i, field)
    BY <1>3 DEF NoteRequest, NoteRefused
  <2>2. /\ entries' \in Entries
        /\ \A j \in Ids : entries[j] # NoEntry => entries'[j] # NoEntry
                                                  /\ entries'[j].h2 = entries[j].h2
    BY <1>t, <2>1, NotedKeeps
  <2> QED BY <1>3, <2>2, CountingKeepsInv DEF NoteRequest, NoteRefused
<1>4. ASSUME NEW i \in Ids, NEW p \in Prefaces, NoteH2(i, p)
      PROVE  CatalogueInv'
  <2>1. CASE entries[i] # NoEntry /\ entries[i].h2 = NoPreface
    <3> DEFINE new == [entries[i] EXCEPT !.h2 = p]
    <3>1. entries' = [entries EXCEPT ![i] = new] /\ written' = written \ {i}
          /\ UNCHANGED <<directory, disk>>
      BY <1>4, <2>1 DEF NoteH2, WrittenBut
    <3>2. new \in Observation
      BY <1>t, <2>1 DEF Entries, Observation
    <3>3. new # NoEntry
      BY <3>2, CatalogueConstants
    <3> HIDE DEF new
    <3>4. entries' \in Entries /\ written' \subseteq Seen'
      BY <1>t, <3>1, <3>2, <3>3 DEF Entries, Seen
    <3>5. WrittenIsOnDisk'
      BY <1>t, <3>1 DEF CatalogueInv, WrittenIsOnDisk, Entries
    <3> QED BY <1>t, <1>4, <3>1, <3>4, <3>5 DEF CatalogueInv, CatalogueTypeOK, Entries
  <2>2. CASE ~(entries[i] # NoEntry /\ entries[i].h2 = NoPreface)
    <3>1. UNCHANGED catalogueVars
      BY <1>4, <2>2 DEF NoteH2, catalogueVars
    <3> QED BY <1>1, <3>1
  <2> QED BY <2>1, <2>2
<1>5. ASSUME NEW i \in Ids, RecordObserved(i) PROVE CatalogueInv'
  <2>1. /\ Noted(i, "no_request") \in Entries
        /\ \A j \in Ids : entries[j] # NoEntry =>
              Noted(i, "no_request")[j] # NoEntry
              /\ Noted(i, "no_request")[j].h2 = entries[j].h2
    BY <1>t, NotedKeeps
  <2>2. Flush(Noted(i, "no_request"), written, directory) /\ directory' = directory
    BY <1>5 DEF RecordObserved
  <2>3. /\ entries' \in Entries /\ written' \subseteq Seen'
        /\ disk' \in [Dirs -> [Ids -> Observation \cup {NoEntry, Torn}]]
        /\ WrittenIsOnDisk'
    BY <1>t, <2>1, <2>2, FlushKeepsInv
  <2> QED BY <1>t, <1>5, <2>2, <2>3 DEF CatalogueInv, CatalogueTypeOK, Entries
<1>6. ASSUME NEW wr \in {{}, written}, NEW d \in Dirs \cup {NoDir}, Flush(entries, wr, d),
             UNCHANGED directory
      PROVE  CatalogueInv'
  <2>1. /\ entries' \in Entries /\ written' \subseteq Seen'
        /\ disk' \in [Dirs -> [Ids -> Observation \cup {NoEntry, Torn}]]
        /\ WrittenIsOnDisk'
    BY <1>t, <1>6, FlushKeepsInv
  <2> QED BY <1>t, <1>6, <2>1 DEF CatalogueInv, CatalogueTypeOK, Entries
<1>7. ASSUME NEW d \in Dirs, CmdCatalogueSave(d) PROVE CatalogueInv'
  BY <1>t, <1>6, <1>7 DEF CmdCatalogueSave
<1>8. ASSUME NEW d \in Dirs \cup {NoDir}, SetDirectory(d)
      PROVE  CatalogueInv'
  BY <1>8 DEF SetDirectory, CatalogueInv, CatalogueTypeOK, WrittenIsOnDisk, Seen
<1>9. CASE FinalFlush
  BY <1>t, <1>6, <1>9 DEF FinalFlush
<1> QED BY <1>1, <1>2, <1>3, <1>4, <1>5, <1>7, <1>8, <1>9 DEF Operation

LEMMA CatalogueInvStep == CatalogueInv /\ [Next]_vars => CatalogueInv'
<1> SUFFICES ASSUME CatalogueInv, [Next]_vars PROVE CatalogueInv'
  OBVIOUS
<1>1. CASE Restart
  BY <1>1, CatalogueConstants
  DEF Restart, WrittenAtStart, CatalogueInv, CatalogueTypeOK, WrittenIsOnDisk, Seen
<1>2. CASE ~Restart
  <2>1. Operation /\ UNCHANGED runs
    BY <1>2 DEF Next, vars, Done, Seen, Operation
  <2>2. phase' \in {"running", "done"}
    BY <1>2 DEF Next, vars, Done, CatalogueInv, CatalogueTypeOK
  <2> QED BY <2>1, <2>2, OperationKeepsInv
<1> QED BY <1>1, <1>2

\* The inductive invariant holds in every reachable state.
THEOREM CatalogueInvariant == Spec => []CatalogueInv
  BY CatalogueInvInit, CatalogueInvStep, PTL DEF Spec

\* The catalogue and its files are of their types, and only entries that exist
\* are remembered as written.
THEOREM CatalogueTypeCorrect == Spec => []CatalogueTypeOK
<1>1. CatalogueInv => CatalogueTypeOK
  BY DEF CatalogueInv
<1> QED BY <1>1, CatalogueInvariant, PTL

\* What is remembered as written is in a file, with its HTTP/2 half, through
\* failed and torn writes, saves to any directory and restarts.
THEOREM RememberedIsOnDisk == Spec => []WrittenIsOnDisk
<1>1. CatalogueInv => WrittenIsOnDisk
  BY DEF CatalogueInv
<1> QED BY <1>1, CatalogueInvariant, PTL

-----------------------------------------------------------------------------
(* With one directory, everything lands there.                             *)

OneDirectory == \A d, e \in Dirs : d = e

LEMMA LandsStep ==
  ASSUME OneDirectory, CatalogueInv, EverySeenLands, [Next]_vars PROVE EverySeenLands'
<1>t. entries \in Entries /\ directory \in Dirs \cup {NoDir} /\ written \subseteq Seen
  BY DEF CatalogueInv, CatalogueTypeOK, Entries
<1>1. CASE UNCHANGED vars
  BY <1>1 DEF vars, catalogueVars, EverySeenLands, Seen
<1>2. CASE phase' # "done"
  BY <1>2 DEF EverySeenLands
<1>3. CASE Done
  <2> DEFINE todo == IF directory = NoDir THEN {}
                     ELSE {i \in Ids : entries[i] # NoEntry} \ written
             Written(bad, torn) ==
               /\ entries' = entries
               /\ written' = written \cup (todo \ bad)
               /\ disk' = [e \in Dirs |-> [i \in Ids |->
                              IF e # directory \/ i \notin todo THEN disk[e][i]
                              ELSE IF i \in torn THEN Torn
                              ELSE IF i \in bad THEN disk[e][i]
                              ELSE entries[i]]]
  <2>a. PICK bad \in SUBSET Faulty : \E torn \in SUBSET bad : Written(bad, torn)
    BY <1>3, Zenon DEF Done, FinalFlush, Flush
  <2>1. PICK torn \in SUBSET bad : Written(bad, torn)
    BY <2>a
  <2>2. directory' = directory
    BY <1>3 DEF Done, FinalFlush
  <2>3. ASSUME directory # NoDir, NEW i \in Seen \ Faulty
        PROVE  disk'[directory][i] # NoEntry /\ disk'[directory][i].h2 = entries[i].h2
    <3>1. i \in Ids /\ entries[i] # NoEntry /\ i \notin bad /\ directory \in Dirs
      BY <1>t, <2>3 DEF Seen
    <3>2. CASE i \in written
      <4>1. PICK d \in Dirs : disk[d][i] # NoEntry /\ disk[d][i].h2 = entries[i].h2
        BY <3>2 DEF CatalogueInv, WrittenIsOnDisk
      <4>2. d = directory
        BY <3>1 DEF OneDirectory
      <4> QED BY <2>1, <3>1, <3>2, <4>1, <4>2
    <3>3. CASE i \notin written
      BY <2>1, <2>3, <3>1, <3>3
    <3> QED BY <3>2, <3>3
  <2> QED BY <2>1, <2>2, <2>3 DEF EverySeenLands, Seen
<1>4. CASE phase = "running" /\ UNCHANGED phase
  BY <1>2, <1>4
<1> QED
  BY <1>1, <1>2, <1>3, <1>4 DEF Next, Restart

\* With one directory, every fingerprint seen is in it when done() has run,
\* with its HTTP/2 half, unless writing its file may fail.
THEOREM EveryFingerprintLands == OneDirectory /\ Spec => []EverySeenLands
<1> SUFFICES ASSUME OneDirectory PROVE Spec => []EverySeenLands
  OBVIOUS
<1>1. Init => EverySeenLands
  BY DEF Init, EverySeenLands
<1>2. CatalogueInv /\ EverySeenLands /\ [Next]_vars => EverySeenLands'
  BY LandsStep
<1> QED BY <1>1, <1>2, CatalogueInvariant, PTL DEF Spec

=============================================================================
