------------------------------ MODULE Catalogue ------------------------------
(***************************************************************************)
(* mitmcloak/catalogue.py: what was observed of every TLS fingerprint, and *)
(* the files it is written to.  Its operations are those of class          *)
(* Catalogue, grouped as the hooks of bridge.py call them: the hooks run   *)
(* on the event loop without awaiting, so each group is one action.        *)
(*                                                                         *)
(* A fingerprint is its stable_id; hosts, ja3 and the base preset, which   *)
(* the document also carries, are left out.                                *)
(***************************************************************************)
EXTENDS Integers

CONSTANTS
    Ids,           \* fingerprints (ClientHelloInfo.stable_id)
    Prefaces,      \* captured HTTP/2 openings
    NoPreface,
    Dirs,          \* directories the user names
    NoDir,
    NoEntry,       \* no such entry, no such file
    Torn,          \* a file whose write failed half way
    Faulty,        \* fingerprints whose file may fail to be written (OSError)
    MaxSeen,       \* bound on the counters of an entry
    MaxRuns        \* bound on the times the proxy is started

Observation ==
    [h2 : Prefaces \cup {NoPreface}, connections : Nat, requests : Nat,
     refused : Nat, no_request : Nat]

ASSUME CatalogueConstants ==
    /\ NoPreface \notin Prefaces
    /\ {NoEntry, Torn} \cap Observation = {} /\ Torn # NoEntry
    /\ NoDir \notin Dirs
    /\ Faulty \subseteq Ids
    /\ MaxSeen \in Nat /\ MaxRuns \in Nat \ {0}

VARIABLES
    entries,       \* self.entries
    written,       \* self._written
    directory,     \* self.directory
    disk,          \* disk[d][i]: the file observed-<i>.json of directory d
    phase,         \* "done" once the addon's done() hook has run
    runs           \* how often the proxy was started

catalogueVars == <<entries, written, directory, disk>>
vars == <<catalogueVars, phase, runs>>

Unseen ==
    [h2 |-> NoPreface, connections |-> 0, requests |-> 0,
     refused |-> 0, no_request |-> 0]

Seen == {i \in Ids : entries[i] # NoEntry}

CatalogueTypeOK ==
    /\ entries \in [Ids -> Observation \cup {NoEntry}]
    /\ written \subseteq Seen
    /\ directory \in Dirs \cup {NoDir}
    /\ disk \in [Dirs -> [Ids -> Observation \cup {NoEntry, Torn}]]
    /\ phase \in {"running", "done"}
    /\ runs \in 1 .. MaxRuns

Init ==
    /\ entries = [i \in Ids |-> NoEntry]
    /\ written = {}
    /\ directory \in Dirs \cup {NoDir}
    /\ disk = [d \in Dirs |-> [i \in Ids |-> NoEntry]]
    /\ phase = "running"
    /\ runs = 1

-----------------------------------------------------------------------------

\* entries once `field` of i was counted up: nothing for an unknown i.
Noted(i, field) ==
    IF entries[i] = NoEntry THEN entries ELSE [entries EXCEPT ![i][field] = @ + 1]

MayNote(i, field) == entries[i] # NoEntry => entries[i][field] < MaxSeen

\* flush with the entries `seen`, `wr` as _written and d as directory: every
\* entry not in wr is written, unless its write raises, which may leave a torn
\* file behind.  (mkdir raising is all of them failing untorn.)
Flush(seen, wr, d) ==
    \E bad \in SUBSET Faulty : \E torn \in SUBSET bad :
        LET todo == IF d = NoDir THEN {} ELSE {i \in Ids : seen[i] # NoEntry} \ wr
        IN  /\ entries' = seen
            /\ written' = wr \cup (todo \ bad)
            /\ disk' = [e \in Dirs |-> [i \in Ids |->
                           IF e # d \/ i \notin todo THEN disk[e][i]
                           ELSE IF i \in torn THEN Torn
                           ELSE IF i \in bad THEN disk[e][i]
                           ELSE seen[i]]]

\* note_hello, from the hook tls_clienthello.
NoteHello(i) ==
    /\ entries[i] # NoEntry => entries[i].connections < MaxSeen
    /\ entries' = [entries EXCEPT ![i] =
                      IF entries[i] = NoEntry THEN [Unseen EXCEPT !.connections = 1]
                      ELSE [entries[i] EXCEPT !.connections = @ + 1]]
    /\ UNCHANGED <<written, directory, disk>>

\* Slip: a richer entry is not written again.
WrittenOnce(i) == written

WrittenBut(i) == written \ {i}

\* note_h2, from the hook next_layer.
NoteH2(i, p) ==
    /\ IF entries[i] # NoEntry /\ entries[i].h2 = NoPreface
         THEN /\ entries' = [entries EXCEPT ![i].h2 = p]
              /\ written' = WrittenBut(i)
         ELSE UNCHANGED <<entries, written>>
    /\ UNCHANGED <<directory, disk>>

\* note_request and note_refused.
NoteRequest(i) ==
    /\ MayNote(i, "requests")
    /\ entries' = Noted(i, "requests")
    /\ UNCHANGED <<written, directory, disk>>

NoteRefused(i) ==
    /\ MayNote(i, "refused")
    /\ entries' = Noted(i, "refused")
    /\ UNCHANGED <<written, directory, disk>>

\* Bridge._record_observed: note_no_request, then flush.
RecordObserved(i) ==
    /\ MayNote(i, "no_request")
    /\ Flush(Noted(i, "no_request"), written, directory)
    /\ UNCHANGED directory

\* The final flush, from done().
FinalFlush ==
    /\ Flush(entries, written, directory)
    /\ UNCHANGED directory

\* The command mitmcloak.catalogue.save: _written is cleared, and flush runs
\* with the directory replaced.
CmdCatalogueSave(d) ==
    /\ Flush(entries, {}, d)
    /\ UNCHANGED directory

\* Bridge.configure, "mitmcloak_catalogue_dir" updated.
SetDirectory(d) ==
    /\ directory' = d
    /\ UNCHANGED <<entries, written, disk>>

-----------------------------------------------------------------------------
(* The catalogue on its own: the hooks in any order, and the proxy stopped *)
(* and started again.  Only the files outlive the process.                 *)

\* Slip: done() leaves the files as the last disconnection left them.
DoneWithoutFlush == phase' = "done" /\ UNCHANGED catalogueVars

\* Bridge.done, as far as the catalogue sees it.
Done == phase' = "done" /\ FinalFlush

WrittenAtStart == {}

Restart ==
    /\ runs < MaxRuns
    /\ runs' = runs + 1
    /\ phase' = "running"
    /\ entries' = [i \in Ids |-> NoEntry]
    /\ written' = WrittenAtStart
    /\ UNCHANGED <<directory, disk>>

\* A connection with fingerprint i may still make a request, or end without one.
Undecided(i) ==
    entries[i].connections > entries[i].no_request + (IF entries[i].requests > 0 THEN 1 ELSE 0)

Next ==
    \/ /\ phase = "running"
       /\ \/ \E i \in Ids : NoteHello(i)
          \/ \E i \in Seen : NoteRequest(i) /\ entries[i].connections > entries[i].no_request
          \/ \E i \in Seen : (NoteRefused(i) \/ RecordObserved(i)) /\ Undecided(i)
          \/ \E i \in Seen, p \in Prefaces : NoteH2(i, p)
          \/ \E d \in Dirs : CmdCatalogueSave(d)
          \/ \E d \in Dirs \cup {NoDir} : SetDirectory(d)
       /\ UNCHANGED <<phase, runs>>
    \/ phase = "running" /\ Done /\ UNCHANGED runs
    \/ Restart

Spec == Init /\ [][Next]_vars

-----------------------------------------------------------------------------
(* Properties                                                              *)

\* What _written remembers is true of some directory: a file there was written
\* in full, with the H2 half if that has since been captured ("richer now, so
\* rewrite it", catalogue.py:72), through failed writes, saves, changes of the
\* directory and restarts.
WrittenIsOnDisk ==
    \A i \in written : \E d \in Dirs :
        /\ disk[d][i] \notin {NoEntry, Torn}
        /\ disk[d][i].h2 = entries[i].h2

\* "Every distinct TLS fingerprint observed lands there" (README.md:179): after
\* done() the directory has a file, H2 half included, for each fingerprint,
\* unless writing it failed.
EverySeenLands ==
    phase = "done" /\ directory # NoDir =>
        \A i \in Seen \ Faulty :
            /\ disk[directory][i] # NoEntry
            /\ disk[directory][i].h2 = entries[i].h2

=============================================================================
