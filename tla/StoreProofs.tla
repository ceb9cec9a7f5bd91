---------------------------- MODULE StoreProofs ----------------------------
(***************************************************************************)
(* Theorems about what requests that overlap keep in a store: the          *)
(* browser's list of sessions and the files of a session (SessionStore),   *)
(* for any calls, sessions, projects and paths; the cache of models        *)
(* (ModelRegistry), for any number of admin calls and readers, any TTL and *)
(* any time; the login sessions and the codes (LoginSession), for any      *)
(* number of requests in progress, login sessions and requests in all.     *)
(***************************************************************************)
EXTENDS SessionStore, ModelRegistry, LoginSession, FiniteSetTheorems, TLAPS

-----------------------------------------------------------------------------
(* The files.                                                              *)

SyncRecord == [pc: {"idle", "lookup", "download", "remove", "upload", "add"},
               session: Sessions, path: Paths, old: FileRecord \cup {NoRecord},
               file: 0..MaxFiles]

\* A runner that adds a record has uploaded the file, and the record it found is of its
\* place.
FileSync ==
    {n \in SyncRecord :
        /\ n.pc = "add" => n.file > 0
        /\ n.pc \in {"idle", "lookup", "add"} => n.old = NoRecord
        /\ n.old # NoRecord => n.old.session = n.session /\ n.old.path = n.path}

SyncTypeOK ==
    /\ fileRecords \subseteq FileRecord /\ uploaded \in 0..MaxFiles
    /\ sync \in [Runners -> FileSync]
    /\ disturbed \subseteq Sessions \X Paths
    /\ latest \in [Sessions \X Paths -> 0..MaxFiles]

RecordsAt(s, p) == {file \in FilesOf(s) : file.path = p}
SyncsAt(r, s, p) == sync[r].pc # "idle" /\ sync[r].session = s /\ sync[r].path = p

\* What there is at a place that no two runners had their hands in: the record of the
\* latest file, which its one runner has found, or has removed.
PlaceKept(s, p) ==
    /\ \A file \in RecordsAt(s, p) : file.file = latest[<<s, p>>]
    /\ RecordsAt(s, p) = {} => \/ latest[<<s, p>>] = 0
                               \/ \E r \in Runners : /\ sync[r].pc \in {"upload", "add"}
                                                     /\ SyncsAt(r, s, p)
    /\ \A q, r \in Runners : SyncsAt(q, s, p) /\ SyncsAt(r, s, p) => q = r
    /\ \A r \in Runners : SyncsAt(r, s, p) =>
           /\ sync[r].pc \in {"download", "remove"} => RecordsAt(s, p) \subseteq {sync[r].old}
           /\ sync[r].pc \in {"upload", "add"} => RecordsAt(s, p) = {}

PlacesKept == \A s \in Sessions, p \in Paths : <<s, p>> \notin disturbed => PlaceKept(s, p)

FilesInv == SyncTypeOK /\ PlacesKept

LEMMA NoFileRecord == NoRecord \notin FileRecord
BY DEF NoRecord, FileRecord

LEMMA FilesInvInit == StoreInit => FilesInv
<1> SUFFICES ASSUME StoreInit PROVE FilesInv
    OBVIOUS
<1> USE StoreConstants
<1>1. (CHOOSE p \in Paths : TRUE) \in Paths /\ (CHOOSE s \in Sessions : TRUE) \in Sessions
    OBVIOUS
<1>2. NoSync \in FileSync /\ NoSync.pc = "idle"
    BY <1>1 DEF NoSync, SyncRecord, FileSync
<1>3. /\ sync \in [Runners -> FileSync] /\ \A r \in Runners : sync[r].pc = "idle"
      /\ fileRecords = {} /\ uploaded = 0 /\ disturbed = {}
      /\ latest \in [Sessions \X Paths -> 0..MaxFiles]
      /\ \A s \in Sessions, p \in Paths : latest[<<s, p>>] = 0
    BY <1>2 DEF StoreInit
<1> QED
    BY <1>3
    DEF FilesInv, SyncTypeOK, PlacesKept, PlaceKept, RecordsAt, FilesOf, SyncsAt

\* A place is kept by a step that leaves its records and the runners that are at it.
LEMMA PlaceLeft ==
    ASSUME NEW s \in Sessions, NEW p \in Paths, PlaceKept(s, p),
           RecordsAt(s, p)' = RecordsAt(s, p), latest'[<<s, p>>] = latest[<<s, p>>],
           \A r \in Runners : SyncsAt(r, s, p) \/ SyncsAt(r, s, p)' =>
               /\ SyncsAt(r, s, p)' <=> SyncsAt(r, s, p)
               /\ sync'[r].pc = sync[r].pc /\ sync'[r].old = sync[r].old
    PROVE  PlaceKept(s, p)'
<1>1. (\E r \in Runners : sync[r].pc \in {"upload", "add"} /\ SyncsAt(r, s, p))
      => \E r \in Runners : sync'[r].pc \in {"upload", "add"} /\ SyncsAt(r, s, p)'
    OBVIOUS
<1> QED
    BY <1>1 DEF PlaceKept

\* A step of a runner leaves the places it is not at.
Elsewhere(s, p) ==
    \A a \in Sessions, b \in Paths : a # s \/ b # p =>
        RecordsAt(a, b)' = RecordsAt(a, b) /\ latest'[<<a, b>>] = latest[<<a, b>>]

\* Its own, if not disturbed, is that of no other runner, and is kept if what the runner
\* knows by then is right.
RightAfter(n, s, p) ==
    /\ \A file \in RecordsAt(s, p)' : file.file = latest'[<<s, p>>]
    /\ RecordsAt(s, p)' = {} => latest'[<<s, p>>] = 0 \/ n.pc \in {"upload", "add"}
    /\ n.pc \in {"download", "remove"} => RecordsAt(s, p)' \subseteq {n.old}
    /\ n.pc \in {"upload", "add"} => RecordsAt(s, p)' = {}

LEMMA RunnerSteps ==
    ASSUME FilesInv, NEW r \in Runners, NEW n \in FileSync, sync' = [sync EXCEPT ![r] = n],
           NEW s \in Sessions, NEW p \in Paths, s = sync[r].session, p = sync[r].path,
           sync[r].pc # "idle", n.session = s, n.path = p,
           disturbed' = disturbed, uploaded' \in 0..MaxFiles,
           fileRecords' \subseteq FileRecord, latest' \in [Sessions \X Paths -> 0..MaxFiles],
           Elsewhere(s, p), <<s, p>> \notin disturbed => RightAfter(n, s, p)
    PROVE  FilesInv'
<1>1. /\ sync \in [Runners -> FileSync] /\ sync' \in [Runners -> FileSync] /\ sync'[r] = n
      /\ \A q \in Runners \ {r} : sync'[q] = sync[q]
    BY DEF FilesInv, SyncTypeOK
<1>2. SyncTypeOK'
    BY <1>1 DEF FilesInv, SyncTypeOK
<1>3. ASSUME NEW a \in Sessions, NEW b \in Paths, <<a, b>> \notin disturbed, a # s \/ b # p
      PROVE  PlaceKept(a, b)'
    <2>1. \A q \in Runners : SyncsAt(q, a, b) \/ SyncsAt(q, a, b)' => q # r
        BY <1>1, <1>3 DEF SyncsAt
    <2>2. \A q \in Runners : SyncsAt(q, a, b) \/ SyncsAt(q, a, b)' =>
              /\ SyncsAt(q, a, b)' <=> SyncsAt(q, a, b)
              /\ sync'[q].pc = sync[q].pc /\ sync'[q].old = sync[q].old
        BY <1>1, <2>1 DEF SyncsAt
    <2>3. PlaceKept(a, b)
        BY <1>3 DEF FilesInv, PlacesKept
    <2> QED
        BY <1>3, <2>2, <2>3, PlaceLeft DEF Elsewhere
<1>4. ASSUME <<s, p>> \notin disturbed
      PROVE  PlaceKept(s, p)'
    <2>1. SyncsAt(r, s, p) /\ PlaceKept(s, p)
        BY <1>4 DEF SyncsAt, FilesInv, PlacesKept
    <2>2. \A q \in Runners : SyncsAt(q, s, p) => q = r
        BY <2>1 DEF PlaceKept
    <2>3. \A q \in Runners : SyncsAt(q, s, p)' => q = r
        BY <1>1, <2>2 DEF SyncsAt
    <2>4. n.pc \in {"upload", "add"} => SyncsAt(r, s, p)'
        BY <1>1 DEF SyncsAt
    <2> QED
        BY <1>1, <1>4, <2>3, <2>4 DEF PlaceKept, RightAfter
<1> QED
    BY <1>2, <1>3, <1>4 DEF FilesInv, PlacesKept

\* What is known of a runner at a place that is not disturbed.
LEMMA RunnerPlace ==
    ASSUME FilesInv, NEW r \in Runners, NEW s \in Sessions, NEW p \in Paths,
           s = sync[r].session, p = sync[r].path, sync[r].pc # "idle", <<s, p>> \notin disturbed
    PROVE  /\ \A file \in RecordsAt(s, p) : file.file = latest[<<s, p>>]
           /\ RecordsAt(s, p) = {} => latest[<<s, p>>] = 0 \/ sync[r].pc \in {"upload", "add"}
           /\ sync[r].pc \in {"download", "remove"} => RecordsAt(s, p) \subseteq {sync[r].old}
           /\ sync[r].pc \in {"upload", "add"} => RecordsAt(s, p) = {}
<1>1. SyncsAt(r, s, p) /\ PlaceKept(s, p)
    BY DEF SyncsAt, FilesInv, PlacesKept
<1> QED
    BY <1>1 DEF PlaceKept

LEMMA SyncFields ==
    ASSUME SyncTypeOK, NEW r \in Runners
    PROVE  /\ sync[r] \in FileSync /\ sync[r].session \in Sessions /\ sync[r].path \in Paths
           /\ sync[r].old \in FileRecord \cup {NoRecord} /\ sync[r].file \in 0..MaxFiles
           /\ uploaded \in 0..MaxFiles /\ MaxFiles \in Nat /\ fileRecords \subseteq FileRecord
           /\ latest \in [Sessions \X Paths -> 0..MaxFiles]
           /\ <<sync[r].session, sync[r].path>> \in Sessions \X Paths
BY StoreConstants DEF SyncTypeOK, SyncRecord, FileSync

\* What a runner does before it changes the document, and the upload.
LEMMA RunnerReads ==
    ASSUME FilesInv, NEW r \in Runners, Lookup(r) \/ Download(r) \/ UploadFile(r)
    PROVE  FilesInv'
<1>0. PICK s \in Sessions, p \in Paths : s = sync[r].session /\ p = sync[r].path
    BY SyncFields DEF FilesInv
<1>1. /\ sync \in [Runners -> FileSync] /\ sync[r] \in FileSync /\ s = sync[r].session /\ p = sync[r].path
      /\ sync[r].old \in FileRecord \cup {NoRecord} /\ sync[r].file \in 0..MaxFiles
      /\ uploaded \in 0..MaxFiles /\ MaxFiles \in Nat /\ fileRecords \subseteq FileRecord
      /\ latest \in [Sessions \X Paths -> 0..MaxFiles]
    BY <1>0, SyncFields DEF FilesInv, SyncTypeOK
<1>2. UNCHANGED <<fileRecords, latest, disturbed>> /\ sync[r].pc # "idle"
    BY DEF Lookup, Download, UploadFile
<1>3. \A a \in Sessions, b \in Paths : /\ RecordsAt(a, b)' = RecordsAt(a, b)
                                       /\ latest'[<<a, b>>] = latest[<<a, b>>]
    BY <1>2 DEF RecordsAt, FilesOf
<1>4. <<s, p>> \notin disturbed =>
          /\ \A file \in RecordsAt(s, p) : file.file = latest[<<s, p>>]
          /\ RecordsAt(s, p) = {} => latest[<<s, p>>] = 0 \/ sync[r].pc \in {"upload", "add"}
          /\ sync[r].pc \in {"download", "remove"} => RecordsAt(s, p) \subseteq {sync[r].old}
          /\ sync[r].pc \in {"upload", "add"} => RecordsAt(s, p) = {}
    BY <1>0, <1>2, RunnerPlace
<1>5. ASSUME NEW n \in FileSync, sync' = [sync EXCEPT ![r] = n], n.session = s, n.path = p,
             uploaded' \in 0..MaxFiles,
             <<s, p>> \notin disturbed =>
                 /\ RecordsAt(s, p) = {} => latest[<<s, p>>] = 0 \/ n.pc \in {"upload", "add"}
                 /\ n.pc \in {"download", "remove"} => RecordsAt(s, p) \subseteq {n.old}
                 /\ n.pc \in {"upload", "add"} => RecordsAt(s, p) = {}
      PROVE  FilesInv'
    <2>1. (<<s, p>> \notin disturbed => RightAfter(n, s, p)) /\ Elsewhere(s, p)
        BY <1>1, <1>3, <1>4, <1>5 DEF RightAfter, Elsewhere
    <2>2. /\ fileRecords' \subseteq FileRecord /\ latest' \in [Sessions \X Paths -> 0..MaxFiles]
          /\ disturbed' = disturbed
        BY <1>1, <1>2
    <2> QED
        BY <1>0, <1>2, <1>5, <2>1, <2>2, RunnerSteps
<1>6. CASE Lookup(r)
    <2>1. PICK old \in IF RecordsAt(s, p) = {} THEN {NoRecord} ELSE RecordsAt(s, p) :
              sync' = [sync EXCEPT ![r].pc = "download", ![r].old = old]
        BY <1>0, <1>6 DEF Lookup, RecordsAt
    <2> DEFINE n == [sync[r] EXCEPT !.pc = "download", !.old = old]
    <2>2. /\ old \in FileRecord \cup {NoRecord}
          /\ old # NoRecord => old.session = s /\ old.path = p
        BY <1>1, <2>1 DEF RecordsAt, FilesOf
    <2>3. /\ n \in FileSync /\ n.pc = "download" /\ n.old = old /\ n.session = s /\ n.path = p
          /\ sync' = [sync EXCEPT ![r] = n]
        BY <1>1, <2>1, <2>2 DEF SyncRecord, FileSync
    <2> HIDE DEF n
    <2>4. ASSUME <<s, p>> \notin disturbed, NEW file \in RecordsAt(s, p)
          PROVE  file = old
        <3>1. old \in RecordsAt(s, p)
            BY <2>1, <2>4
        <3>2. /\ file \in FileRecord /\ old \in FileRecord /\ file.session = old.session
              /\ file.path = old.path /\ file.file = old.file
            BY <1>1, <1>4, <2>4, <3>1 DEF RecordsAt, FilesOf
        <3> QED
            BY <3>2 DEF FileRecord
    <2>5. <<s, p>> \notin disturbed => (RecordsAt(s, p) = {} => latest[<<s, p>>] = 0)
        BY <1>4, <1>6 DEF Lookup
    <2>6. uploaded' \in 0..MaxFiles
        BY <1>1, <1>6, Zenon DEF Lookup
    <2> QED
        BY <1>5, <2>3, <2>4, <2>5, <2>6
<1>7. CASE Download(r)
    <2> DEFINE pc == IF sync[r].old = NoRecord THEN "upload" ELSE "remove"
               n == [sync[r] EXCEPT !.pc = pc]
    <2>1. /\ n \in FileSync /\ n.pc = pc /\ n.old = sync[r].old /\ n.session = s /\ n.path = p
          /\ sync' = [sync EXCEPT ![r] = n] /\ pc \in {"upload", "remove"}
        BY <1>1, <1>7 DEF SyncRecord, FileSync, Download, SyncIs
    <2>2. <<s, p>> \notin disturbed =>
              /\ RecordsAt(s, p) \subseteq {sync[r].old}
              /\ RecordsAt(s, p) = {} => latest[<<s, p>>] = 0
        BY <1>4, <1>7 DEF Download
    <2>3. <<s, p>> \notin disturbed /\ pc = "upload" => RecordsAt(s, p) = {}
        BY <1>1, <2>2, NoFileRecord DEF RecordsAt, FilesOf
    <2>4. uploaded' \in 0..MaxFiles
        BY <1>1, <1>7 DEF Download
    <2> HIDE DEF n, pc
    <2> QED
        BY <1>5, <2>1, <2>2, <2>3, <2>4
<1>8. CASE UploadFile(r)
    <2> DEFINE n == [sync[r] EXCEPT !.pc = "add", !.file = uploaded + 1, !.old = NoRecord]
    <2>1. uploaded' = uploaded + 1 /\ uploaded + 1 \in 0..MaxFiles /\ uploaded + 1 > 0
        BY <1>1, <1>8 DEF UploadFile
    <2>2. /\ n \in FileSync /\ n.pc = "add" /\ n.session = s /\ n.path = p
          /\ sync' = [sync EXCEPT ![r] = n]
        BY <1>1, <1>8, <2>1 DEF SyncRecord, FileSync, UploadFile
    <2>3. <<s, p>> \notin disturbed => RecordsAt(s, p) = {}
        BY <1>4, <1>8 DEF UploadFile
    <2> HIDE DEF n
    <2> QED
        BY <1>5, <2>1, <2>2, <2>3
<1> QED
    BY <1>6, <1>7, <1>8

\* What it changes the document with, and its end.
LEMMA RunnerWrites ==
    ASSUME FilesInv, NEW r \in Runners, RemoveFile(r) \/ AddFile(r) \/ SyncFails(r)
    PROVE  FilesInv'
<1>0. PICK s \in Sessions, p \in Paths : s = sync[r].session /\ p = sync[r].path
    BY SyncFields DEF FilesInv
<1>1. /\ sync \in [Runners -> FileSync] /\ sync[r] \in FileSync /\ s = sync[r].session /\ p = sync[r].path
      /\ sync[r].old \in FileRecord \cup {NoRecord} /\ sync[r].file \in 0..MaxFiles
      /\ uploaded \in 0..MaxFiles /\ MaxFiles \in Nat /\ fileRecords \subseteq FileRecord
      /\ latest \in [Sessions \X Paths -> 0..MaxFiles] /\ <<s, p>> \in Sessions \X Paths
    BY <1>0, SyncFields DEF FilesInv, SyncTypeOK
<1>2. UNCHANGED <<uploaded, disturbed>> /\ sync[r].pc # "idle"
    BY DEF RemoveFile, AddFile, SyncFails
<1>3. <<s, p>> \notin disturbed =>
          /\ \A file \in RecordsAt(s, p) : file.file = latest[<<s, p>>]
          /\ RecordsAt(s, p) = {} => latest[<<s, p>>] = 0 \/ sync[r].pc \in {"upload", "add"}
          /\ sync[r].pc \in {"download", "remove"} => RecordsAt(s, p) \subseteq {sync[r].old}
          /\ sync[r].pc \in {"upload", "add"} => RecordsAt(s, p) = {}
    BY <1>0, <1>2, RunnerPlace
<1>4. ASSUME NEW n \in FileSync, sync' = [sync EXCEPT ![r] = n], n.session = s, n.path = p,
             n.pc \in {"idle", "upload"},
             fileRecords' \subseteq FileRecord, latest' \in [Sessions \X Paths -> 0..MaxFiles],
             Elsewhere(s, p),
             <<s, p>> \notin disturbed => RightAfter(n, s, p)
      PROVE  FilesInv'
    <2>1. disturbed' = disturbed /\ uploaded' \in 0..MaxFiles
        BY <1>1, <1>2
    <2> QED
        BY <1>0, <1>2, <1>4, <2>1, RunnerSteps
<1>5. CASE RemoveFile(r)
    <2> DEFINE n == [sync[r] EXCEPT !.pc = "upload"]
    <2>1. /\ n \in FileSync /\ n.pc = "upload" /\ n.session = s /\ n.path = p
          /\ sync' = [sync EXCEPT ![r] = n]
          /\ fileRecords' = fileRecords \ {sync[r].old} /\ UNCHANGED latest
        BY <1>1, <1>5 DEF SyncRecord, FileSync, RemoveFile, SyncIs, Without
    <2> HIDE DEF n
    <2>2. <<s, p>> \notin disturbed => RecordsAt(s, p)' = {}
        BY <1>3, <1>5, <2>1 DEF RemoveFile, RecordsAt, FilesOf
    <2>3. sync[r].old \in fileRecords => sync[r].old.session = s /\ sync[r].old.path = p
        BY <1>1, NoFileRecord DEF FileSync
    <2>4. Elsewhere(s, p)
        BY <2>1, <2>3 DEF Elsewhere, RecordsAt, FilesOf
    <2>5. fileRecords' \subseteq FileRecord /\ latest' \in [Sessions \X Paths -> 0..MaxFiles]
        BY <1>1, <2>1
    <2>6. <<s, p>> \notin disturbed => RightAfter(n, s, p)
        BY <2>1, <2>2 DEF RightAfter
    <2> QED
        BY <1>4, <2>1, <2>4, <2>5, <2>6
<1>6. CASE AddFile(r)
    <2> DEFINE n == [sync[r] EXCEPT !.pc = "idle"]
               added == IF Stored(s) THEN sync[r].file ELSE 0
               record == [session |-> s, path |-> p, file |-> added]
    <2>1. /\ n \in FileSync /\ n.pc = "idle" /\ n.session = s /\ n.path = p
          /\ sync' = [sync EXCEPT ![r] = n]
          /\ fileRecords' = IF Stored(s) THEN fileRecords \cup {record} ELSE fileRecords
          /\ latest' = [latest EXCEPT ![<<s, p>>] = added]
        BY <1>1, <1>6 DEF SyncRecord, FileSync, AddFile, SyncIs, Place
    <2>2. /\ Stored(s) => record \in FileRecord /\ record.session = s /\ record.path = p
                          /\ record.file = added
          /\ added \in 0..MaxFiles /\ (Stored(s) <=> added # 0)
        BY <1>1, <1>6 DEF AddFile, FileSync, FileRecord
    <2> HIDE DEF n, added, record
    <2>3. /\ fileRecords' \subseteq FileRecord /\ latest' \in [Sessions \X Paths -> 0..MaxFiles]
          /\ latest'[<<s, p>>] = added
          /\ \A a \in Sessions, b \in Paths :
                 a # s \/ b # p => latest'[<<a, b>>] = latest[<<a, b>>]
        BY <1>1, <2>1, <2>2
    <2>4. \A a \in Sessions, b \in Paths : a # s \/ b # p => RecordsAt(a, b)' = RecordsAt(a, b)
        BY <2>1, <2>2 DEF RecordsAt, FilesOf
    <2>5. <<s, p>> \notin disturbed =>
              RecordsAt(s, p)' = IF Stored(s) THEN {record} ELSE {}
        <3>1. <<s, p>> \notin disturbed => RecordsAt(s, p) = {}
            BY <1>3, <1>6 DEF AddFile
        <3> QED
            BY <2>1, <2>2, <3>1 DEF RecordsAt, FilesOf
    <2>6. <<s, p>> \notin disturbed => RightAfter(n, s, p)
        BY <2>1, <2>2, <2>3, <2>5 DEF RightAfter
    <2>7. Elsewhere(s, p)
        BY <2>3, <2>4 DEF Elsewhere
    <2> QED
        BY <1>4, <2>1, <2>3, <2>6, <2>7
<1>7. CASE SyncFails(r)
    <2> DEFINE n == [sync[r] EXCEPT !.pc = "idle", !.old = NoRecord]
               cut == sync[r].pc \in {"upload", "add"}
    <2>1. /\ n \in FileSync /\ n.pc = "idle" /\ n.session = s /\ n.path = p
          /\ sync' = [sync EXCEPT ![r] = n] /\ UNCHANGED fileRecords
          /\ latest' = IF cut THEN [latest EXCEPT ![<<s, p>>] = 0] ELSE latest
        BY <1>1, <1>7 DEF SyncRecord, FileSync, SyncFails, Place
    <2> HIDE DEF n
    <2>3. \A a \in Sessions, b \in Paths : RecordsAt(a, b)' = RecordsAt(a, b)
        BY <2>1 DEF RecordsAt, FilesOf
    <2>4. <<s, p>> \notin disturbed =>
              /\ cut => RecordsAt(s, p) = {}
              /\ \A file \in RecordsAt(s, p) : file.file = latest[<<s, p>>]
              /\ RecordsAt(s, p) = {} /\ ~cut => latest[<<s, p>>] = 0
        BY <1>3
    <2> HIDE DEF cut
    <2>5. CASE cut
        <3>1. /\ latest' \in [Sessions \X Paths -> 0..MaxFiles] /\ latest'[<<s, p>>] = 0
              /\ \A a \in Sessions, b \in Paths :
                     a # s \/ b # p => latest'[<<a, b>>] = latest[<<a, b>>]
            BY <1>1, <2>1, <2>5
        <3>2. Elsewhere(s, p) /\ (<<s, p>> \notin disturbed => RightAfter(n, s, p))
            BY <1>0, <2>1, <2>3, <2>4, <2>5, <3>1 DEF Elsewhere, RightAfter
        <3> QED
            BY <1>1, <1>4, <2>1, <3>1, <3>2
    <2>6. CASE ~cut
        <3>1. Elsewhere(s, p) /\ (<<s, p>> \notin disturbed => RightAfter(n, s, p))
            BY <1>0, <2>1, <2>3, <2>4, <2>6 DEF Elsewhere, RightAfter
        <3> QED
            BY <1>1, <1>4, <2>1, <2>6, <3>1
    <2> QED
        BY <2>5, <2>6
<1> QED
    BY <1>5, <1>6, <1>7

\* A sync begins at a place that no other is at, or disturbs it; and so does a file that
\* a user attached.
LEMMA SyncBegins ==
    ASSUME FilesInv, NEW r \in Runners, NEW s \in Sessions, NEW p \in Paths,
           BeginSync(r, s, p) \/ Attach(r, s, p)
    PROVE  FilesInv'
<1>1. /\ SyncTypeOK /\ PlacesKept /\ sync \in [Runners -> FileSync]
      /\ sync[r] \in FileSync /\ uploaded \in 0..MaxFiles /\ MaxFiles \in Nat
      /\ fileRecords \subseteq FileRecord /\ sync[r].pc = "idle" /\ UNCHANGED latest
    BY SyncFields DEF FilesInv, SyncTypeOK, BeginSync, Attach
<1>2. CASE BeginSync(r, s, p)
    <2> DEFINE n == [sync[r] EXCEPT !.pc = "lookup", !.session = s, !.path = p]
    <2>1. /\ n \in FileSync /\ n.pc = "lookup" /\ n.session = s /\ n.path = p
          /\ sync' = [sync EXCEPT ![r] = n] /\ UNCHANGED <<fileRecords, uploaded>>
          /\ disturbed' = IF \E q \in Runners : SyncsAt(q, s, p)
                          THEN disturbed \cup {<<s, p>>} ELSE disturbed
        BY <1>1, <1>2 DEF SyncRecord, FileSync, BeginSync, Place, SyncsAt
    <2> HIDE DEF n
    <2>2. SyncTypeOK'
        BY <1>1, <2>1 DEF SyncTypeOK
    <2>3. \A a \in Sessions, b \in Paths : RecordsAt(a, b)' = RecordsAt(a, b)
        BY <2>1 DEF RecordsAt, FilesOf
    <2>4. ASSUME NEW a \in Sessions, NEW b \in Paths, <<a, b>> \notin disturbed'
          PROVE  PlaceKept(a, b)'
        <3>1. PlaceKept(a, b)
            BY <1>1, <2>1, <2>4 DEF PlacesKept
        <3>2. CASE a = s /\ b = p
            <4>1. \A q \in Runners : ~SyncsAt(q, a, b)
                BY <2>1, <2>4, <3>2
            <4>2. \A q \in Runners : SyncsAt(q, a, b)' => q = r /\ sync'[q].pc = "lookup"
                BY <1>1, <2>1, <4>1 DEF SyncsAt
            <4>3. RecordsAt(a, b) = {} => latest[<<a, b>>] = 0
                BY <3>1, <4>1 DEF PlaceKept
            <4>4. \A q \in Runners : SyncsAt(q, a, b)' =>
                      sync'[q].pc \notin {"download", "remove", "upload", "add"}
                BY <4>2
            <4>5. \A file \in RecordsAt(a, b) : file.file = latest[<<a, b>>]
                BY <3>1 DEF PlaceKept
            <4>6. \A q1, q2 \in Runners : SyncsAt(q1, a, b)' /\ SyncsAt(q2, a, b)' => q1 = q2
                BY <4>2
            <4> QED
                BY <1>1, <2>3, <4>3, <4>4, <4>5, <4>6 DEF PlaceKept
        <3>3. CASE a # s \/ b # p
            <4>1. \A q \in Runners : SyncsAt(q, a, b) \/ SyncsAt(q, a, b)' =>
                      /\ SyncsAt(q, a, b)' <=> SyncsAt(q, a, b)
                      /\ sync'[q].pc = sync[q].pc /\ sync'[q].old = sync[q].old
                BY <1>1, <2>1, <3>3 DEF SyncsAt
            <4> QED
                BY <1>1, <2>3, <3>1, <4>1, PlaceLeft
        <3> QED
            BY <3>2, <3>3
    <2> QED
        BY <2>2, <2>4 DEF FilesInv, PlacesKept
<1>3. CASE Attach(r, s, p)
    <2> DEFINE record == [session |-> s, path |-> p, file |-> uploaded + 1]
    <2>1. /\ record \in FileRecord /\ record.session = s /\ record.path = p
          /\ uploaded + 1 \in 0..MaxFiles
        BY <1>1, <1>3 DEF Attach, FileRecord
    <2>2. /\ fileRecords' = fileRecords \cup {record} /\ uploaded' = uploaded + 1
          /\ disturbed' = disturbed \cup {<<s, p>>} /\ UNCHANGED sync
        BY <1>3 DEF Attach
    <2> HIDE DEF record
    <2>3. SyncTypeOK'
        BY <1>1, <2>1, <2>2 DEF SyncTypeOK
    <2>4. ASSUME NEW a \in Sessions, NEW b \in Paths, <<a, b>> \notin disturbed'
          PROVE  PlaceKept(a, b)'
        <3>1. PlaceKept(a, b) /\ (a # s \/ b # p)
            BY <1>1, <2>2, <2>4 DEF PlacesKept
        <3>2. RecordsAt(a, b)' = RecordsAt(a, b)
            BY <2>1, <2>2, <3>1 DEF RecordsAt, FilesOf
        <3>3. \A q \in Runners : SyncsAt(q, a, b)' <=> SyncsAt(q, a, b)
            BY <2>2 DEF SyncsAt
        <3> QED
            BY <1>1, <2>2, <3>1, <3>2, <3>3, PlaceLeft
    <2> QED
        BY <2>3, <2>4 DEF FilesInv, PlacesKept
<1> QED
    BY <1>2, <1>3

LEMMA FilesInvStep == FilesInv /\ [SyncNext]_syncVars => FilesInv'
<1> SUFFICES ASSUME FilesInv, [SyncNext]_syncVars PROVE FilesInv'
    OBVIOUS
<1>1. CASE SyncNext
    BY <1>1, RunnerReads, RunnerWrites, SyncBegins DEF SyncNext
<1>2. CASE UNCHANGED syncVars
    BY <1>2 DEF syncVars, FilesInv, SyncTypeOK, PlacesKept, PlaceKept, RecordsAt,
        FilesOf, SyncsAt
<1> QED
    BY <1>1, <1>2

\* A save leaves the records of the places it does not disturb; a deletion takes those of
\* every place of its session, where nothing is expected then.
LEMMA DocumentFiles ==
    ASSUME FilesInv, NEW u \in Updates, updates[u].session \in Sessions,
           updates[u].files \subseteq FileRecord,
           \A file \in updates[u].files : file.session = updates[u].session,
           SaveSession(u) \/ DeleteSession(u)
    PROVE  FilesInv'
<1> DEFINE s == updates[u].session files == updates[u].files
<1>1. /\ SyncTypeOK /\ PlacesKept /\ sync \in [Runners -> FileSync]
      /\ fileRecords \subseteq FileRecord /\ MaxFiles \in Nat /\ s \in Sessions
      /\ latest \in [Sessions \X Paths -> 0..MaxFiles] /\ disturbed \subseteq Sessions \X Paths
      /\ files \subseteq FileRecord /\ UNCHANGED <<sync, uploaded>>
    BY StoreConstants DEF FilesInv, SyncTypeOK, SaveSession, DeleteSession
<1>2. \A a \in Sessions, b \in Paths, q \in Runners : SyncsAt(q, a, b)' <=> SyncsAt(q, a, b)
    BY <1>1 DEF SyncsAt
<1>3. CASE SaveSession(u)
    <2> DEFINE changed == (FilesOf(s) \ files) \cup (files \ FilesOf(s))
    <2>1. /\ fileRecords' = (fileRecords \ FilesOf(s)) \cup files /\ UNCHANGED latest
          /\ disturbed' = disturbed \cup {<<s, file.path>> : file \in changed}
        BY <1>3 DEF SaveSession
    <2>2. \A file \in changed : file.path \in Paths
        BY <1>1 DEF FilesOf, FileRecord
    <2>3. SyncTypeOK'
        BY <1>1, <2>1, <2>2 DEF SyncTypeOK, FilesOf
    <2>4. ASSUME NEW a \in Sessions, NEW b \in Paths, <<a, b>> \notin disturbed'
          PROVE  PlaceKept(a, b)'
        <3>1. PlaceKept(a, b)
            BY <1>1, <2>1, <2>4 DEF PlacesKept
        <3>2. RecordsAt(a, b)' = RecordsAt(a, b)
            <4>1. ASSUME a = s, NEW file \in changed
                  PROVE  file.path # b
                BY <2>1, <2>4, <4>1
            <4>2. CASE a = s
                BY <1>1, <2>1, <4>1, <4>2 DEF RecordsAt, FilesOf
            <4>3. CASE a # s
                BY <1>1, <2>1, <4>3 DEF RecordsAt, FilesOf
            <4> QED
                BY <4>2, <4>3
        <3> QED
            BY <1>1, <1>2, <2>1, <3>1, <3>2, PlaceLeft
    <2> QED
        BY <2>3, <2>4 DEF FilesInv, PlacesKept
<1>4. CASE DeleteSession(u)
    <2>1. /\ fileRecords' = fileRecords \ FilesOf(s) /\ UNCHANGED disturbed
          /\ latest' = [at \in Sessions \X Paths |-> IF at[1] = s THEN 0 ELSE latest[at]]
        BY <1>4 DEF DeleteSession
    <2>2. /\ latest' \in [Sessions \X Paths -> 0..MaxFiles]
          /\ \A a \in Sessions, b \in Paths :
                 latest'[<<a, b>>] = IF a = s THEN 0 ELSE latest[<<a, b>>]
        BY <1>1, <2>1
    <2>3. \A a \in Sessions, b \in Paths :
              RecordsAt(a, b)' = IF a = s THEN {} ELSE RecordsAt(a, b)
        BY <1>1, <2>1 DEF RecordsAt, FilesOf
    <2>4. SyncTypeOK'
        BY <1>1, <2>1, <2>2 DEF SyncTypeOK, FilesOf
    <2>5. ASSUME NEW a \in Sessions, NEW b \in Paths, <<a, b>> \notin disturbed
          PROVE  PlaceKept(a, b)'
        <3>1. PlaceKept(a, b)
            BY <1>1, <2>5 DEF PlacesKept
        <3>2. CASE a = s
            BY <1>1, <1>2, <2>2, <2>3, <3>1, <3>2 DEF PlaceKept
        <3>3. CASE a # s
            BY <1>1, <1>2, <2>2, <2>3, <3>1, <3>3, PlaceLeft
        <3> QED
            BY <3>2, <3>3
    <2> QED
        BY <2>1, <2>4, <2>5 DEF FilesInv, PlacesKept
<1> QED
    BY <1>3, <1>4

-----------------------------------------------------------------------------
(* The list: types.                                                        *)

UpdateRecord == [pc: UpdatePC, op: UpdateOp, session: Sessions,
                 read: SessionDoc, files: SUBSET FileRecord, new: Summary,
                 affected: SUBSET Sessions]

\* A call that looks for a project is one of three, and one that saves it has found it.
\* The files that a call has read are those of its session.
StoreUpdate ==
    {r \in UpdateRecord :
        /\ r.pc = "project" => r.op \in {"move", "drop", "edit"}
        /\ r.pc = "put" => r.new.project \in Projects
        /\ \A file \in r.files : file.session = r.session}

ListMessage == {"upsert", "remove"} \X Sessions
BrowserList == [subscribed: BOOLEAN, loaded: BOOLEAN, shown: [Sessions -> SessionDoc]]

ListTypeOK ==
    /\ sessionDocs \in [Sessions -> SessionDoc]
    /\ projects \subseteq Projects
    /\ updates \in [Updates -> StoreUpdate]
    /\ channel \in Seq(ListMessage)
    /\ list \in BrowserList
    /\ unheard \subseteq Sessions

LEMMA DocTypes ==
    /\ Unborn \in SessionDoc /\ Erased \in SessionDoc /\ NoUpdate.new \in Summary
    /\ Summary \subseteq SessionDoc
    /\ \A d \in Summary, n \in Summary : /\ [d EXCEPT !.project = n.project] \in Summary
                                         /\ [d EXCEPT !.project = NoProject] \in Summary
                                         /\ [d EXCEPT !.item = n.item] \in Summary
BY DEF SessionDoc, Unborn, Erased, NoUpdate, Summary, Items

LEMMA NoUpdateType == NoUpdate \in StoreUpdate /\ NoUpdate.pc = "idle" /\ NoUpdate.files = {}
<1>1. (CHOOSE s \in Sessions : TRUE) \in Sessions
    BY StoreConstants
<1> QED
    BY <1>1, DocTypes DEF NoUpdate, StoreUpdate, UpdateRecord, UpdatePC, UpdateOp

LEMMA UpdateFields ==
    ASSUME ListTypeOK, NEW u \in Updates
    PROVE  /\ updates[u] \in StoreUpdate /\ updates[u].session \in Sessions
           /\ updates[u].read \in SessionDoc /\ updates[u].new \in Summary
           /\ updates[u].new.project \in Projects \cup {NoProject}
           /\ updates[u].affected \in SUBSET Sessions
           /\ updates[u].files \in SUBSET FileRecord
           /\ \A file \in updates[u].files : file.session = updates[u].session
BY DEF ListTypeOK, StoreUpdate, UpdateRecord, Summary

LEMMA StepToType ==
    ASSUME ListTypeOK, NEW u \in Updates, NEW pc \in UpdatePC, StepTo(u, pc),
           pc # "project", pc = "put" => updates[u].new.project \in Projects
    PROVE  updates' \in [Updates -> StoreUpdate]
<1>1. [updates[u] EXCEPT !.pc = pc] \in StoreUpdate
    BY DEF ListTypeOK, StoreUpdate, UpdateRecord
<1>2. updates' = [updates EXCEPT ![u] = [updates[u] EXCEPT !.pc = pc]]
    BY DEF StepTo, ListTypeOK, StoreUpdate, UpdateRecord
<1> QED
    BY <1>1, <1>2 DEF ListTypeOK

LEMMA ShownType ==
    ASSUME ListTypeOK, NEW s \in Sessions
    PROVE  Shown(s) \in SessionDoc
BY DocTypes DEF Shown, Stored, ListTypeOK

LEMMA ListInitTypes == StoreInit => ListTypeOK
<1> SUFFICES ASSUME StoreInit PROVE ListTypeOK
    OBVIOUS
<1>1. NoList \in BrowserList
    BY DocTypes DEF NoList, BrowserList
<1> QED
    BY <1>1, DocTypes, NoUpdateType DEF StoreInit, ListTypeOK

\* What the calls do that tell nobody: each leaves the channel and the list.
QuietStep(u) ==
    \/ InsertSession(u) \/ OwnProject(u) \/ CheckSession(u) \/ SetFields(u)
    \/ FindSession(u) \/ SaveSession(u) \/ DeleteSession(u)
    \/ Affected(u) \/ ClearProject(u) \/ DropProject(u)
    \/ PutProject(u) \/ Notify(u)
    \/ \E op \in UpdateOp, s \in Sessions, new \in Summary : BeginUpdate(u, op, s, new)

LEMMA BeginTypes ==
    ASSUME ListTypeOK, NEW u \in Updates, NEW op \in UpdateOp, NEW s \in Sessions,
           NEW new \in Summary, BeginUpdate(u, op, s, new)
    PROVE  updates' \in [Updates -> StoreUpdate]
<1> DEFINE pc == CASE op = "create" -> "insert"
                   [] op \in {"drop", "edit"} -> "project"
                   [] op = "move" /\ new.project # NoProject -> "project"
                   [] OTHER -> "check"
           n == [NoUpdate EXCEPT !.op = op, !.session = s, !.new = new, !.pc = pc]
<1>1. pc \in UpdatePC
    BY DEF UpdatePC
<1>4. pc # "put" /\ (pc = "project" => op \in {"move", "drop", "edit"})
    OBVIOUS
<1> HIDE DEF pc
<1>2. n \in StoreUpdate
    BY <1>1, <1>4, NoUpdateType DEF StoreUpdate, UpdateRecord
<1>3. updates' = [updates EXCEPT ![u] = n]
    BY DEF BeginUpdate, pc
<1> QED
    BY <1>2, <1>3 DEF ListTypeOK

\* The sessions that a step changes are those it adds to the unheard.
Changes(docs) ==
    /\ \A s \in Sessions \ docs : sessionDocs'[s] = sessionDocs[s]
    /\ unheard' = unheard \cup docs

LEMMA QuietTypes ==
    ASSUME ListTypeOK, fileRecords \subseteq FileRecord, NEW u \in Updates, QuietStep(u)
    PROVE  /\ ListTypeOK'
           /\ UNCHANGED <<channel, list>>
           /\ \E docs \in SUBSET Sessions : Changes(docs)
<1> DEFINE r == updates[u]
<1>1. /\ r \in StoreUpdate /\ r.session \in Sessions /\ r.read \in SessionDoc /\ r.new \in Summary
      /\ r.new.project \in Projects \cup {NoProject}
      /\ sessionDocs \in [Sessions -> SessionDoc] /\ projects \subseteq Projects
      /\ updates \in [Updates -> StoreUpdate] /\ unheard \subseteq Sessions
      /\ channel \in Seq(ListMessage) /\ list \in BrowserList
    BY UpdateFields DEF ListTypeOK
<1>2. UNCHANGED <<channel, list>>
    BY Zenon DEF QuietStep, InsertSession, OwnProject, CheckSession, SetFields, FindSession,
        SaveSession, DeleteSession, Affected, ClearProject, DropProject, PutProject, Notify,
        BeginUpdate, KeepList
<1>3. ASSUME updates' \in [Updates -> StoreUpdate], sessionDocs' \in [Sessions -> SessionDoc],
             projects' \subseteq Projects,
             NEW docs \in SUBSET Sessions, Changes(docs)
      PROVE  /\ ListTypeOK'
             /\ UNCHANGED <<channel, list>>
             /\ \E changed \in SUBSET Sessions : Changes(changed)
    BY <1>1, <1>2, <1>3 DEF ListTypeOK, Changes
<1>4. ASSUME updates' \in [Updates -> StoreUpdate], sessionDocs' = sessionDocs,
             projects' \subseteq Projects, unheard' = unheard
      PROVE  /\ ListTypeOK'
             /\ UNCHANGED <<channel, list>>
             /\ \E changed \in SUBSET Sessions : Changes(changed)
    BY <1>1, <1>3, <1>4 DEF Changes
<1>5. ASSUME NEW pc \in UpdatePC, StepTo(u, pc),
             pc # "project", pc = "put" => r.new.project \in Projects
      PROVE  updates' \in [Updates -> StoreUpdate]
    BY <1>5, StepToType
<1>6. CASE InsertSession(u)
    <2>1. Changes({r.session}) /\ sessionDocs' \in [Sessions -> SessionDoc]
        BY <1>1, <1>6, DocTypes DEF InsertSession, Changes
    <2> QED
        BY <1>1, <1>3, <1>5, <1>6, <2>1 DEF InsertSession, UpdatePC
<1>7. CASE OwnProject(u)
    <2> DEFINE pc == IF r.new.project \notin projects THEN "closed"
                     ELSE CASE r.op = "move" -> "check"
                            [] r.op = "drop" -> "affected"
                            [] r.op = "edit" -> "put"
    <2>1. StepTo(u, pc)
        BY <1>7 DEF OwnProject
    <2>2. r.op \in {"move", "drop", "edit"}
        BY <1>1, <1>7 DEF OwnProject, StoreUpdate
    <2>3. pc \in UpdatePC /\ pc # "project" /\ (pc = "put" => r.new.project \in Projects)
        BY <1>1, <2>2 DEF UpdatePC
    <2> HIDE DEF pc
    <2> QED
        BY <1>1, <1>4, <1>5, <1>7, <2>1, <2>3 DEF OwnProject
<1>8. CASE CheckSession(u)
    <2> DEFINE read == IF r.op = "save" THEN sessionDocs[r.session] ELSE Unborn
               files == IF r.op = "save" THEN FilesOf(r.session) ELSE {}
               pc == IF ~Stored(r.session) THEN "closed"
                     ELSE CASE r.op \in {"update", "move"} -> "set"
                            [] OTHER -> "find"
    <2>1. /\ read \in SessionDoc /\ pc \in UpdatePC \ {"project", "put"}
          /\ files \in SUBSET FileRecord /\ \A file \in files : file.session = r.session
        BY <1>1, DocTypes DEF UpdatePC, FilesOf
    <2>2. updates' = [updates EXCEPT ![u].read = read, ![u].files = files, ![u].pc = pc]
        BY <1>8 DEF CheckSession
    <2> DEFINE n == [r EXCEPT !.read = read, !.files = files, !.pc = pc]
    <2>3. updates' = [updates EXCEPT ![u] = n]
        BY <1>1, <2>2
    <2> HIDE DEF read, files, pc
    <2>5. n \in StoreUpdate
        BY <1>1, <2>1 DEF StoreUpdate, UpdateRecord
    <2> HIDE DEF n
    <2>6. updates' \in [Updates -> StoreUpdate]
        BY <1>1, <2>3, <2>5
    <2>4. sessionDocs' = sessionDocs /\ projects' = projects /\ unheard' = unheard
        BY <1>8, Zenon DEF CheckSession
    <2> QED
        BY <1>1, <1>4, <2>4, <2>6
<1>9. CASE SetFields(u)
    <2>1. Changes({r.session}) /\ sessionDocs' \in [Sessions -> SessionDoc]
        BY <1>1, <1>9, DocTypes DEF SetFields, Changes, Stored
    <2> QED
        BY <1>1, <1>3, <1>5, <1>9, <2>1 DEF SetFields, UpdatePC
<1>10. CASE FindSession(u)
    <2> DEFINE pc == IF r.op = "save" THEN "save"
                     ELSE IF Stored(r.session) THEN "delete" ELSE "closed"
    <2>1. StepTo(u, pc)
        BY <1>10 DEF FindSession
    <2>2. pc \in UpdatePC \ {"project", "put"}
        BY DEF UpdatePC
    <2> HIDE DEF pc
    <2> QED
        BY <1>1, <1>4, <1>5, <1>10, <2>1, <2>2 DEF FindSession
<1>11. CASE SaveSession(u)
    <2>1. Changes({r.session}) /\ sessionDocs' \in [Sessions -> SessionDoc]
        BY <1>1, <1>11 DEF SaveSession, Changes
    <2> QED
        BY <1>1, <1>3, <1>5, <1>11, <2>1 DEF SaveSession, UpdatePC
<1>12. CASE DeleteSession(u)
    <2>1. Changes({r.session}) /\ sessionDocs' \in [Sessions -> SessionDoc]
        BY <1>1, <1>12, DocTypes DEF DeleteSession, Changes
    <2> QED
        BY <1>1, <1>3, <1>5, <1>12, <2>1 DEF DeleteSession, UpdatePC
<1>13. CASE Affected(u)
    <2> DEFINE affected == {s \in Sessions : Stored(s) /\ sessionDocs[s].project = r.new.project}
    <2>1. updates' = [updates EXCEPT ![u].pc = "clear", ![u].affected = affected]
        BY <1>13 DEF Affected
    <2>2. affected \in SUBSET Sessions
        OBVIOUS
    <2> HIDE DEF affected
    <2>3. updates' \in [Updates -> StoreUpdate]
        BY <1>1, <2>1, <2>2, ZenonT(60) DEF StoreUpdate, UpdateRecord, UpdatePC
    <2> QED
        BY <1>1, <1>4, <1>13, <2>3 DEF Affected
<1>14. CASE ClearProject(u)
    <2> DEFINE cleared == {s \in Sessions : Stored(s) /\ sessionDocs[s].project = r.new.project}
    <2>1. /\ sessionDocs' = [s \in Sessions |->
                 IF s \in cleared THEN [sessionDocs[s] EXCEPT !.project = NoProject]
                 ELSE sessionDocs[s]]
          /\ unheard' = unheard \cup cleared /\ StepTo(u, "tell") /\ projects' = projects
        BY <1>14 DEF ClearProject
    <2>2. cleared \in SUBSET Sessions /\ \A s \in cleared : sessionDocs[s] \in Summary
        BY DEF Stored
    <2> HIDE DEF cleared
    <2>3. Changes(cleared) /\ sessionDocs' \in [Sessions -> SessionDoc]
        BY <1>1, <2>1, <2>2, DocTypes DEF Changes
    <2> QED
        BY <1>1, <1>3, <1>5, <2>1, <2>2, <2>3 DEF UpdatePC
<1>15. CASE DropProject(u)
    BY <1>1, <1>4, <1>5, <1>15 DEF DropProject, UpdatePC
<1>16. CASE PutProject(u)
    <2>1. r.new.project \in Projects
        BY <1>1, <1>16 DEF PutProject, StoreUpdate
    <2> QED
        BY <1>1, <1>4, <1>5, <1>16, <2>1 DEF PutProject, UpdatePC
<1>17. CASE Notify(u)
    BY <1>1, <1>4, <1>5, <1>17 DEF Notify, UpdatePC
<1>18. ASSUME NEW op \in UpdateOp, NEW s \in Sessions, NEW new \in Summary,
              BeginUpdate(u, op, s, new)
       PROVE  /\ ListTypeOK'
              /\ UNCHANGED <<channel, list>>
              /\ \E changed \in SUBSET Sessions : Changes(changed)
    <2>1. UNCHANGED <<sessionDocs, projects, unheard>>
        BY <1>18, Zenon DEF BeginUpdate
    <2> QED
        BY <1>1, <1>4, <1>18, <2>1, BeginTypes
<1> QED
    BY <1>6, <1>7, <1>8, <1>9, <1>10, <1>11, <1>12, <1>13, <1>14, <1>15, <1>16, <1>17, <1>18
    DEF QuietStep

-----------------------------------------------------------------------------
(* The list: what it shows.                                                *)

About(i, s) == channel[i][2] = s
LastAbout(i, s) == About(i, s) /\ \A j \in 1..Len(channel) : j > i => ~About(j, s)

\* There is a channel to read only of a socket that has subscribed, which it does before
\* it loads the list.
SubscribedFirst ==
    /\ list.loaded => list.subscribed
    /\ ~list.subscribed => channel = <<>>

\* What comes last in the channel about a session that is not unheard of is right, and
\* if nothing comes, the list is.
ComesRight(s) ==
    /\ \A i \in 1..Len(channel) :
          LastAbout(i, s) => (channel[i][1] = "remove" <=> ~Stored(s))
    /\ list.loaded /\ (\A i \in 1..Len(channel) : ~About(i, s)) => list.shown[s] = Shown(s)

Heard == \A s \in Sessions \ unheard : ComesRight(s)

ListInv == ListTypeOK /\ SubscribedFirst /\ Heard

\* A step that leaves the channel and the list is right of the sessions it leaves.
LEMMA QuietHeard ==
    ASSUME ListInv, UNCHANGED <<channel, list>>,
           NEW docs \in SUBSET Sessions, Changes(docs)
    PROVE  SubscribedFirst' /\ Heard'
<1>1. \A s \in Sessions \ docs : (Stored(s)' <=> Stored(s)) /\ Shown(s)' = Shown(s)
    BY DEF Changes, Stored, Shown
<1>2. \A s \in Sessions \ unheard' : s \notin docs /\ ComesRight(s)
    BY DEF Changes, ListInv, Heard
<1>3. \A s \in Sessions \ unheard' : ComesRight(s)'
    BY <1>1, <1>2 DEF ComesRight, LastAbout, About
<1> QED
    BY <1>3 DEF Heard, ListInv, SubscribedFirst

\* A message that is published is right about its session, or that is unheard of.
LEMMA PublishedHeard ==
    ASSUME ListInv, UNCHANGED <<sessionDocs, list>>, NEW s \in Sessions,
           NEW op \in {"upsert", "remove"}, Published(s, op)
    PROVE  /\ channel' \in Seq(ListMessage) /\ unheard' \subseteq Sessions
           /\ SubscribedFirst' /\ Heard'
<1>1. /\ channel \in Seq(ListMessage) /\ unheard \subseteq Sessions /\ SubscribedFirst
      /\ \A x \in Sessions \ unheard : ComesRight(x)
      /\ \A x \in Sessions : (Stored(x)' <=> Stored(x)) /\ Shown(x)' = Shown(x)
    BY DEF ListInv, ListTypeOK, Heard, Stored, Shown
<1>2. CASE UNCHANGED <<channel, unheard>>
    <2>1. \A x \in Sessions \ unheard : ComesRight(x)'
        BY <1>1, <1>2 DEF ComesRight, LastAbout, About
    <2> QED
        BY <1>1, <1>2, <2>1 DEF Heard, SubscribedFirst
<1>3. ASSUME channel' = IF list.subscribed THEN Append(channel, <<op, s>>) ELSE channel,
             unheard' = IF (op = "remove") = Stored(s) THEN unheard \cup {s} ELSE unheard \ {s}
      PROVE  /\ channel' \in Seq(ListMessage) /\ unheard' \subseteq Sessions
             /\ SubscribedFirst' /\ Heard'
    <2>0. PICK n \in Nat : n = Len(channel)
        BY <1>1
    <2>1. n \in Nat /\ <<op, s>> \in ListMessage /\ unheard' \subseteq Sessions
        BY <1>1, <1>3 DEF ListMessage
    <2>2. s \notin unheard' => (op = "remove" <=> ~Stored(s))
        BY <1>3 DEF Stored
    <2>3. \A x \in (Sessions \ unheard') \ {s} : ComesRight(x)
        BY <1>1, <1>3
    <2>4. CASE ~list.subscribed
        <3>1. channel' = <<>> /\ channel = <<>> /\ ~list.loaded
            BY <1>1, <1>3, <2>4 DEF SubscribedFirst
        <3>2. \A x \in Sessions \ unheard' : ComesRight(x)'
            BY <3>1 DEF ComesRight
        <3> QED
            BY <1>1, <2>1, <3>1, <3>2 DEF Heard, SubscribedFirst
    <2>5. CASE list.subscribed
        <3>1. /\ channel' = Append(channel, <<op, s>>) /\ channel' \in Seq(ListMessage)
              /\ Len(channel') = n + 1
              /\ channel'[n + 1][1] = op /\ channel'[n + 1][2] = s
              /\ \A i \in 1..n : channel'[i] = channel[i]
            BY <1>1, <1>3, <2>0, <2>1, <2>5
        <3>2. ASSUME NEW x \in (Sessions \ unheard') \ {s}
              PROVE  ComesRight(x)'
            <4>1. \A i \in 1..n : (About(i, x)' <=> About(i, x))
                BY <3>1 DEF About
            <4>2. ~About(n + 1, x)'
                BY <3>1 DEF About
            <4>3. \A i \in 1..Len(channel') : LastAbout(i, x)' => i \in 1..n /\ LastAbout(i, x)
                BY <2>0, <2>1, <3>1, <4>1, <4>2 DEF LastAbout
            <4>4. \A i \in 1..Len(channel') :
                      LastAbout(i, x)' => (channel'[i][1] = "remove" <=> ~Stored(x)')
                BY <1>1, <2>0, <2>3, <3>1, <3>2, <4>3 DEF ComesRight
            <4>5. (\A i \in 1..Len(channel') : ~About(i, x)') => \A i \in 1..n : ~About(i, x)
                BY <2>0, <2>1, <3>1, <4>1
            <4> QED
                BY <1>1, <2>0, <2>3, <3>2, <4>4, <4>5 DEF ComesRight
        <3>3. ASSUME s \notin unheard'
              PROVE  ComesRight(s)'
            <4>1. About(n + 1, s)' /\ n + 1 \in 1..Len(channel')
                BY <2>0, <2>1, <3>1 DEF About
            <4>2. \A i \in 1..Len(channel') : LastAbout(i, s)' => i = n + 1
                BY <2>0, <2>1, <3>1, <4>1 DEF LastAbout
            <4> QED
                BY <1>1, <2>0, <2>2, <3>1, <3>3, <4>1, <4>2 DEF ComesRight
        <3>4. SubscribedFirst'
            BY <1>1, <2>5 DEF SubscribedFirst
        <3> QED
            BY <2>0, <2>1, <3>1, <3>2, <3>3, <3>4 DEF Heard
    <2> QED
        BY <2>4, <2>5
<1> QED
    BY <1>2, <1>3, <1>1 DEF Published

\* Messages are handled with what is stored by then.
LEMMA HandleHeard ==
    ASSUME ListInv, Handle
    PROVE  ListInv'
<1> DEFINE n == Len(channel) op == Head(channel)[1] h == Head(channel)[2]
           doc == IF op = "remove" THEN Unborn ELSE IF Stored(h) THEN Shown(h) ELSE list.shown[h]
<1>1. /\ channel \in Seq(ListMessage) /\ channel # <<>> /\ list \in BrowserList /\ list.loaded
      /\ ListTypeOK /\ SubscribedFirst
      /\ \A x \in Sessions \ unheard : ComesRight(x)
      /\ UNCHANGED <<sessionDocs, projects, updates, unheard>>
      /\ list.subscribed /\ list.shown \in [Sessions -> SessionDoc]
    BY DEF Handle, ListInv, ListTypeOK, Heard, SubscribedFirst, BrowserList
<1>2. /\ channel' = Tail(channel) /\ channel' \in Seq(ListMessage) /\ n \in Nat \ {0}
      /\ Len(channel') = n - 1 /\ \A i \in 1..(n - 1) : channel'[i] = channel[i + 1]
      /\ channel[1] = Head(channel) /\ Head(channel) \in ListMessage
    BY <1>1 DEF Handle
<1>3. h \in Sessions /\ op \in {"upsert", "remove"}
    BY <1>2 DEF ListMessage
<1>4. doc \in SessionDoc
    BY <1>1, <1>3, DocTypes, ShownType
<1>5. list' = [list EXCEPT !.shown[h] = doc]
    BY DEF Handle
<1> HIDE DEF doc
<1>6. /\ list' \in BrowserList /\ list'.loaded /\ list'.subscribed /\ list'.shown[h] = doc
      /\ \A x \in Sessions \ {h} : list'.shown[x] = list.shown[x]
    BY <1>1, <1>3, <1>4, <1>5 DEF BrowserList
<1>7. \A x \in Sessions : (Stored(x)' <=> Stored(x)) /\ Shown(x)' = Shown(x)
    BY <1>1 DEF Stored, Shown
<1>8. ASSUME NEW x \in Sessions \ unheard
      PROVE  ComesRight(x)'
    <2>1. \A i \in 1..(n - 1) : i + 1 \in 1..n /\ (About(i, x)' <=> About(i + 1, x))
        BY <1>2 DEF About
    <2>2. ASSUME NEW i \in 1..(n - 1), LastAbout(i, x)'
          PROVE  i + 1 \in 1..n /\ LastAbout(i + 1, x)
        <3>1. About(i + 1, x)
            BY <2>1, <2>2 DEF LastAbout
        <3>2. ASSUME NEW j \in 1..n, j > i + 1, About(j, x)
              PROVE  FALSE
            <4>1. j - 1 \in 1..(n - 1) /\ j - 1 > i /\ (j - 1) + 1 = j
                BY <1>2, <3>2
            <4>2. About(j - 1, x)'
                BY <2>1, <3>2, <4>1
            <4> QED
                BY <1>2, <2>2, <4>1, <4>2 DEF LastAbout
        <3> QED
            BY <2>1, <3>1, <3>2 DEF LastAbout
    <2>3. \A i \in 1..Len(channel') :
              LastAbout(i, x)' => (channel'[i][1] = "remove" <=> ~Stored(x)')
        BY <1>1, <1>2, <1>7, <2>2 DEF ComesRight
    <2>4. ASSUME \A i \in 1..(n - 1) : ~About(i, x)'
          PROVE  list'.shown[x] = Shown(x)'
        <3>1. \A i \in 1..n : i > 1 => ~About(i, x)
            <4> SUFFICES ASSUME NEW i \in 1..n, i > 1 PROVE ~About(i, x)
                OBVIOUS
            <4>1. i - 1 \in 1..(n - 1) /\ (i - 1) + 1 = i
                BY <1>2
            <4> QED
                BY <2>1, <2>4, <4>1
        <3>2. CASE h = x
            <4>1. LastAbout(1, x) /\ 1 \in 1..n
                BY <1>2, <3>1, <3>2 DEF LastAbout, About
            <4>2. op = "remove" <=> ~Stored(x)
                BY <1>1, <1>2, <1>8, <4>1 DEF ComesRight
            <4> QED
                BY <1>6, <1>7, <3>2, <4>2 DEF Shown, doc
        <3>3. CASE h # x
            <4>1. \A i \in 1..n : ~About(i, x)
                BY <1>2, <3>1, <3>3 DEF About
            <4> QED
                BY <1>1, <1>6, <1>7, <1>8, <3>3, <4>1 DEF ComesRight
        <3> QED
            BY <3>2, <3>3
    <2> QED
        BY <1>2, <2>3, <2>4 DEF ComesRight
<1> QED
    BY <1>1, <1>2, <1>6, <1>8 DEF ListInv, ListTypeOK, SubscribedFirst, Heard

\* The socket and the browser.
LEMMA SocketHeard ==
    ASSUME ListInv, Subscribe \/ Snapshot \/ Disconnect
    PROVE  ListInv'
<1>1. /\ ListTypeOK /\ SubscribedFirst /\ list \in BrowserList
      /\ \A x \in Sessions \ unheard : ComesRight(x)
      /\ \A x \in Sessions : Shown(x) \in SessionDoc
    BY ShownType DEF ListInv, ListTypeOK, Heard
<1>2. UNCHANGED <<sessionDocs, projects, updates, unheard>>
    BY DEF Subscribe, Snapshot, Disconnect
<1>3. \A x \in Sessions : (Stored(x)' <=> Stored(x)) /\ Shown(x)' = Shown(x)
    BY <1>2 DEF Stored, Shown
<1>4. CASE Subscribe
    <2>1. /\ list' \in BrowserList /\ list'.subscribed /\ ~list.loaded /\ ~list'.loaded
          /\ channel' = channel
        BY <1>1, <1>4 DEF Subscribe, BrowserList, SubscribedFirst
    <2>2. \A x \in Sessions \ unheard : ComesRight(x)'
        BY <1>1, <1>3, <2>1 DEF ComesRight, LastAbout, About
    <2> QED
        BY <1>1, <1>2, <2>1, <2>2 DEF ListInv, ListTypeOK, SubscribedFirst, Heard
<1>5. CASE Snapshot
    <2>1. /\ list' \in BrowserList /\ list'.subscribed /\ list'.loaded /\ channel' = channel
          /\ \A x \in Sessions : list'.shown[x] = Shown(x)
        <3>1. /\ list' = [list EXCEPT !.loaded = TRUE, !.shown = [x \in Sessions |-> Shown(x)]]
              /\ list.subscribed /\ channel' = channel
            BY <1>5 DEF Snapshot, MayLoad
        <3> DEFINE shown == [x \in Sessions |-> Shown(x)]
        <3>2. shown \in [Sessions -> SessionDoc] /\ \A x \in Sessions : shown[x] = Shown(x)
            BY <1>1
        <3>3. list' = [list EXCEPT !.loaded = TRUE, !.shown = shown]
            BY <3>1
        <3> HIDE DEF shown
        <3>4. list' \in BrowserList
            BY <1>1, <3>2, <3>3 DEF BrowserList
        <3>5. list'.subscribed /\ list'.loaded /\ list'.shown = shown
            BY <1>1, <3>1, <3>3 DEF BrowserList
        <3> QED
            BY <3>1, <3>2, <3>4, <3>5
    <2>2. \A x \in Sessions \ unheard : ComesRight(x)'
        BY <1>1, <1>3, <2>1 DEF ComesRight, LastAbout, About
    <2> QED
        BY <1>1, <1>2, <2>1, <2>2 DEF ListInv, ListTypeOK, SubscribedFirst, Heard
<1>6. CASE Disconnect
    <2>1. /\ list' \in BrowserList /\ ~list'.loaded /\ channel' = <<>>
        BY <1>6, DocTypes DEF Disconnect, NoList, BrowserList
    <2>2. \A x \in Sessions \ unheard : ComesRight(x)'
        BY <2>1 DEF ComesRight
    <2> QED
        BY <1>1, <1>2, <2>1, <2>2 DEF ListInv, ListTypeOK, SubscribedFirst, Heard
<1> QED
    BY <1>4, <1>5, <1>6

\* The calls that tell of what they changed.
LEMMA TellingHeard ==
    ASSUME ListInv, NEW u \in Updates, Publish(u) \/ TellAffected(u)
    PROVE  ListInv'
<1>1. /\ ListTypeOK /\ updates \in [Updates -> StoreUpdate] /\ updates[u] \in StoreUpdate
      /\ updates[u].session \in Sessions /\ updates[u].affected \in SUBSET Sessions
      /\ UNCHANGED <<sessionDocs, projects, list>>
    BY UpdateFields DEF ListInv, ListTypeOK, Publish, TellAffected
<1>2. ASSUME updates' \in [Updates -> StoreUpdate], channel' \in Seq(ListMessage),
             unheard' \subseteq Sessions
      PROVE  ListTypeOK'
    BY <1>1, <1>2 DEF ListTypeOK
<1>3. CASE Publish(u)
    <2>1. updates' \in [Updates -> StoreUpdate]
        BY <1>1, <1>3, StepToType DEF Publish, UpdatePC
    <2> DEFINE op == IF updates[u].pc = "remove" THEN "remove" ELSE "upsert"
    <2>2. Published(updates[u].session, op) /\ op \in {"upsert", "remove"}
        BY <1>3 DEF Publish
    <2> HIDE DEF op
    <2> QED
        BY <1>1, <1>2, <2>1, <2>2, PublishedHeard DEF ListInv
<1>4. CASE TellAffected(u)
    <2>1. CASE StepTo(u, "drop") /\ UNCHANGED <<channel, unheard>>
        <3>1. ListTypeOK'
            BY <1>1, <1>2, <2>1, StepToType DEF UpdatePC, ListTypeOK
        <3>2. Changes({})
            BY <1>1, <2>1 DEF Changes
        <3> QED
            BY <1>1, <2>1, <3>1, <3>2, QuietHeard DEF ListInv
    <2>2. ASSUME NEW s \in updates[u].affected,
                 updates' = [updates EXCEPT ![u].affected = updates[u].affected \ {s}],
                 Published(s, "upsert")
          PROVE  ListInv'
        <3>1. updates' \in [Updates -> StoreUpdate]
            BY <1>1, <2>2 DEF StoreUpdate, UpdateRecord
        <3> QED
            BY <1>1, <1>2, <2>2, <3>1, PublishedHeard DEF ListInv
    <2> QED
        BY <1>4, <2>1, <2>2 DEF TellAffected
<1> QED
    BY <1>3, <1>4

LEMMA ListInvStep ==
    ListInv /\ fileRecords \subseteq FileRecord /\ [ListNext]_listVars => ListInv'
<1> SUFFICES ASSUME ListInv, fileRecords \subseteq FileRecord, [ListNext]_listVars PROVE ListInv'
    OBVIOUS
<1>1. ASSUME NEW u \in Updates, QuietStep(u)
      PROVE  ListInv'
    <2>1. /\ ListTypeOK' /\ UNCHANGED <<channel, list>>
          /\ \E docs \in SUBSET Sessions : Changes(docs)
        BY <1>1, QuietTypes DEF ListInv
    <2> QED
        BY <2>1, QuietHeard DEF ListInv
<1>2. CASE UNCHANGED listVars
    BY <1>2
    DEF listVars, ListInv, ListTypeOK, SubscribedFirst, Heard, ComesRight, LastAbout, About,
        Stored, Shown
<1>3. CASE ListNext
    <2>1. \/ Subscribe \/ Snapshot \/ Handle \/ Disconnect
          \/ \E u \in Updates : QuietStep(u) \/ Publish(u) \/ TellAffected(u)
        BY <1>3 DEF ListNext, QuietStep
    <2> QED
        BY <1>1, <2>1, SocketHeard, HandleHeard, TellingHeard
<1> QED
    BY <1>2, <1>3

-----------------------------------------------------------------------------
(* Both.                                                                   *)

StoreInv == ListInv /\ FilesInv

LEMMA StoreInvInit == StoreInit => StoreInv
<1> SUFFICES ASSUME StoreInit PROVE StoreInv
    OBVIOUS
<1>1. ListTypeOK
    BY ListInitTypes
<1>2. channel = <<>> /\ ~list.loaded
    BY DEF StoreInit, NoList
<1>3. SubscribedFirst /\ Heard
    BY <1>2 DEF SubscribedFirst, Heard, ComesRight
<1> QED
    BY <1>1, <1>3, FilesInvInit DEF StoreInv, ListInv

\* The steps of one call.
UpdateStep(u) ==
    \/ InsertSession(u) \/ OwnProject(u) \/ CheckSession(u) \/ SetFields(u)
    \/ FindSession(u) \/ SaveSession(u) \/ DeleteSession(u)
    \/ Affected(u) \/ ClearProject(u) \/ TellAffected(u) \/ DropProject(u)
    \/ PutProject(u) \/ Notify(u) \/ Publish(u)
    \/ \E op \in UpdateOp, s \in Sessions, new \in Summary : BeginUpdate(u, op, s, new)

LEMMA StoreInvStep == StoreInv /\ [ListNext \/ SyncNext]_storeVars => StoreInv'
<1> SUFFICES ASSUME StoreInv, [ListNext \/ SyncNext]_storeVars PROVE StoreInv'
    OBVIOUS
<1>1. ListInv /\ FilesInv /\ fileRecords \subseteq FileRecord
    BY DEF StoreInv, FilesInv, SyncTypeOK
<1>2. CASE UNCHANGED storeVars
    <2>1. UNCHANGED listVars /\ UNCHANGED syncVars
        BY <1>2 DEF storeVars
    <2> QED
        BY <1>1, <2>1, ListInvStep, FilesInvStep DEF StoreInv
<1>3. CASE ListNext
    <2>1. ListInv'
        BY <1>1, <1>3, ListInvStep
    <2>2. UNCHANGED syncVars \/ \E u \in Updates : SaveSession(u) \/ DeleteSession(u)
        <3>1. CASE Subscribe \/ Snapshot \/ Handle \/ Disconnect
            BY <3>1, Zenon DEF Subscribe, Snapshot, Handle, Disconnect
        <3>2. ASSUME NEW u \in Updates, UpdateStep(u)
              PROVE  UNCHANGED syncVars \/ SaveSession(u) \/ DeleteSession(u)
            <4>1. CASE \/ InsertSession(u) \/ OwnProject(u) \/ CheckSession(u) \/ SetFields(u)
                       \/ FindSession(u)
                BY <4>1, ZenonT(60) DEF InsertSession, OwnProject, CheckSession, SetFields,
                    FindSession, KeepList
            <4>2. CASE \/ Affected(u) \/ ClearProject(u) \/ TellAffected(u) \/ DropProject(u)
                       \/ PutProject(u) \/ Notify(u) \/ Publish(u)
                BY <4>2, ZenonT(60) DEF Affected, ClearProject, TellAffected, DropProject,
                    PutProject, Notify, Publish, KeepList
            <4>3. CASE \E op \in UpdateOp, s \in Sessions, new \in Summary :
                           BeginUpdate(u, op, s, new)
                BY <4>3, ZenonT(60) DEF BeginUpdate, KeepList
            <4> QED
                BY <3>2, <4>1, <4>2, <4>3, Zenon DEF UpdateStep
        <3> QED
            BY <1>3, <3>1, <3>2, Zenon DEF ListNext, UpdateStep
    <2>3. ASSUME NEW u \in Updates, SaveSession(u) \/ DeleteSession(u)
          PROVE  FilesInv'
        BY <1>1, <2>3, UpdateFields, DocumentFiles DEF ListInv
    <2> QED
        BY <1>1, <2>1, <2>2, <2>3, FilesInvStep DEF StoreInv
<1>4. CASE SyncNext
    <2>1. UNCHANGED listVars
        BY <1>4, ZenonT(60)
        DEF SyncNext, Lookup, Download, RemoveFile, UploadFile, AddFile, SyncFails, BeginSync,
            Attach
    <2> QED
        BY <1>1, <1>4, <2>1, ListInvStep, FilesInvStep DEF StoreInv
<1> QED
    BY <1>2, <1>3, <1>4

\* AgentService, ProjectService: sessions, projects, the calls that change them, the
\* channel, the list and the files keep their types.
THEOREM StoreTypes == StoreSpec => []StoreTypeOK
<1>1. StoreInv => StoreTypeOK
    BY DEF StoreInv, ListInv, ListTypeOK, FilesInv, SyncTypeOK, StoreTypeOK, StoreUpdate,
        UpdateRecord, ListMessage, BrowserList, SyncRecord, FileSync
<1> QED
    BY <1>1, StoreInvInit, StoreInvStep, PTL DEF StoreSpec

\* sessions_list_ws: whatever calls and connections overlap, a list that waits for
\* nothing shows what is stored of every session that somebody told of last.
THEOREM CurrentList == StoreSpec => []ListIsCurrent
<1>1. StoreInv => ListIsCurrent
    <2> SUFFICES ASSUME StoreInv, list.subscribed, list.loaded, channel = <<>>,
                        NEW s \in Sessions \ unheard
                 PROVE  list.shown[s] = Shown(s)
        BY DEF ListIsCurrent
    <2>1. ComesRight(s)
        BY DEF StoreInv, ListInv, Heard
    <2> QED
        BY <2>1 DEF ComesRight
<1> QED
    BY <1>1, StoreInvInit, StoreInvStep, PTL DEF StoreSpec

\* _sync_file_to_storage: at a place where no save disturbed the records, no two runners
\* overlapped and no user attached a file, there is the record of the file that was
\* recorded last and no other, whatever syncs failed or were cancelled, and for any
\* number of runners, calls and sessions; there is none only while one is replaced, or
\* after that was cut.
THEOREM LatestRecord == StoreSpec => []OnlyLatestRecord
<1>1. StoreInv => OnlyLatestRecord
    <2> SUFFICES ASSUME StoreInv, NEW s \in Sessions, NEW p \in Paths, <<s, p>> \notin disturbed
                 PROVE  LET there == {file \in FilesOf(s) : file.path = p}
                        IN /\ \A file \in there : file.file = latest[<<s, p>>]
                           /\ there = {} => \/ latest[<<s, p>>] = 0
                                            \/ \E r \in Runners :
                                                  /\ sync[r].pc \in {"upload", "add"}
                                                  /\ Place(r) = <<s, p>>
        BY Zenon DEF OnlyLatestRecord
    <2>1. PlaceKept(s, p)
        BY DEF StoreInv, FilesInv, PlacesKept
    <2> QED
        BY <2>1 DEF PlaceKept, RecordsAt, SyncsAt, Place
<1> QED
    BY <1>1, StoreInvInit, StoreInvStep, PTL DEF StoreSpec

-----------------------------------------------------------------------------
(* The registry of models.                                                 *)

\* The calls that have nothing left to write.
ModelsWritten == {a \in Admins : admins[a].pc \in {"invalidate", "closed"}}

\* A call makes one version at most.
OneVersionEach == registry.version <= Cardinality(ModelsWritten)

\* What a PATCH goes on with is a document it has read.
HoldsModel == \A a \in Admins : admins[a].pc \in {"find", "save"} => admins[a].hold \in Model

RegistryTypeInv == RegistryTypeOK /\ OneVersionEach /\ HoldsModel

\* Version v had not been superseded before the time t.
CurrentAt(v, t) == v = registry.version \/ t <= registry.ended[v]

\* Nothing says it is from the future,
PastTimes ==
    /\ cache.at <= clock
    /\ \A r \in Readers : lookups[r].now <= clock

\* a copy was current at the time it is dated with, which is before it was read,
CopiesDated ==
    /\ cache.filled => CurrentAt(cache.version, cache.at)
    /\ \A r \in Readers : lookups[r].pc = "store" => CurrentAt(lookups[r].version, lookups[r].now)

\* and the age of what is served is bounded.
RegistryInv == RegistryTypeInv /\ PastTimes /\ CopiesDated /\ StaleBounded

-----------------------------------------------------------------------------
LEMMA MaxVersionIsNat == MaxVersion \in Nat
BY RegistryAssumption, FS_CardinalityType DEF MaxVersion

\* Versions never run out: the writers are counted.
LEMMA CountWritten ==
    ASSUME RegistryTypeInv, NEW a \in Admins, a \notin ModelsWritten
    PROVE  /\ registry.version + 1 \in Versions
           /\ IsFiniteSet(ModelsWritten)
           /\ Cardinality(ModelsWritten \cup {a}) = Cardinality(ModelsWritten) + 1
<1> USE RegistryAssumption
<1>1. /\ IsFiniteSet(ModelsWritten)
      /\ IsFiniteSet(ModelsWritten \cup {a})
      /\ Cardinality(ModelsWritten \cup {a}) = Cardinality(ModelsWritten) + 1
    BY FS_Subset, FS_AddElement DEF ModelsWritten
<1>2. Cardinality(ModelsWritten \cup {a}) <= Cardinality(Admins)
    BY <1>1, FS_Subset, ModelsWritten \cup {a} \subseteq Admins DEF ModelsWritten
<1>3. /\ Cardinality(ModelsWritten) \in Nat
      /\ Cardinality(Admins) \in Nat
    BY <1>1, FS_CardinalityType
<1> QED
    BY <1>1, <1>2, <1>3 DEF RegistryTypeInv, RegistryTypeOK, OneVersionEach, Versions, MaxVersion

-----------------------------------------------------------------------------
(* What each kind of step changes.                                         *)

AdminCall == [pc: AdminPC, op: RegistryOp, patch: Patch, hold: Model \cup {NoModel}]
ReaderLookup == [pc: ReaderPC, now: Clock, version: Versions]
Registry == [version: Versions, ended: [Versions -> Clock]]

\* The document of a call's write.
LEMMA WriteFrame ==
    ASSUME RegistryTypeInv, NEW a \in Admins, a \notin ModelsWritten, NEW m, WriteModel(m)
    PROVE  /\ registry' \in Registry
           /\ registry'.version = registry.version + 1
           /\ registry'.ended[registry.version] = clock
           /\ \A v \in Versions \ {registry.version} : registry'.ended[v] = registry.ended[v]
<1>1. registry \in Registry /\ clock \in Clock
    BY DEF RegistryTypeInv, RegistryTypeOK, Registry
<1>2. registry.version + 1 \in Versions
    BY CountWritten
<1> QED
    BY <1>1, <1>2 DEF WriteModel, Registry

\* An admin call moves itself, and writes the document once.
LEMMA AdminFrame ==
    ASSUME RegistryTypeInv, NEW a \in Admins, AdminStep(a)
    PROVE  /\ admins' \in [Admins -> AdminCall]
           /\ \A b \in Admins \ {a} : admins'[b] = admins[b]
           /\ admins'[a].pc \in {"find", "save"} => admins'[a].hold \in Model
           /\ model' \in Model \cup {NoModel}
           /\ \/ registry' = registry /\ (a \in ModelsWritten => admins'[a].pc = "closed")
              \/ /\ a \notin ModelsWritten /\ admins'[a].pc \in {"invalidate", "closed"}
                 /\ \E m : WriteModel(m)
           /\ cache' \in {cache, Empty}
           /\ UNCHANGED <<clock, lastGood, lookups>>
<1>1. /\ admins \in [Admins -> AdminCall]
      /\ admins[a].pc \in {"find", "save"} => admins[a].hold \in Model
      /\ model \in Model \cup {NoModel}
    BY DEF RegistryTypeInv, RegistryTypeOK, HoldsModel, AdminCall
<1>2. [NewAdmin EXCEPT !.pc = "closed"] \in AdminCall /\ [NewAdmin EXCEPT !.pc = "closed"].pc = "closed"
    BY DEF NewAdmin, AdminCall, AdminPC, RegistryOp, Patch, KeepAll
<1>3. CASE CreateFinds(a) \/ ImportFinds(a)
    BY <1>1, <1>2, <1>3 DEF CreateFinds, ImportFinds, Finds, AdminEnds, AdminCall, AdminPC,
        RegistryOp, ModelsWritten
<1>4. CASE InsertModel(a)
    <2>1. a \notin ModelsWritten
        BY <1>4 DEF InsertModel, ModelsWritten
    <2>2. \A key \in {"none", "first"} :
              [id |-> registry.version + 1, enabled |-> TRUE, key |-> key] \in Model
        BY <2>1, CountWritten DEF Model, Keys
    <2>3. model' \in Model \cup {NoModel}
        BY <1>1, <1>4, <2>2 DEF InsertModel, WriteModel
    <2>4. registry' = registry \/ \E m : WriteModel(m)
        BY <1>4 DEF InsertModel
    <2>5. AdminEnds(a) \/ AdminAt(a, "invalidate")
        BY <1>4 DEF InsertModel
    <2>6. /\ admins' \in [Admins -> AdminCall]
          /\ \A b \in Admins \ {a} : admins'[b] = admins[b]
          /\ admins'[a].pc \in {"invalidate", "closed"}
        BY <1>1, <1>2, <2>5 DEF AdminEnds, AdminAt, AdminCall, AdminPC
    <2> QED
        BY <1>4, <2>1, <2>3, <2>4, <2>6 DEF InsertModel
<1>5. CASE UpdateReads(a)
    <2>1. \A m \in Model, patch \in Patch : Patched(m, patch) \in Model
        BY DEF Patched, Model, Patch
    <2>2. a \notin ModelsWritten
        BY <1>5 DEF UpdateReads, ModelsWritten
    <2>3. CASE AdminEnds(a)
        BY <1>1, <1>2, <1>5, <2>2, <2>3 DEF UpdateReads, AdminEnds
    <2>4. CASE model # NoModel /\ ~ AdminEnds(a)
        <3>1. PICK patch \in Patch :
                  admins' = [admins EXCEPT
                      ![a] = [pc |-> "find", op |-> "update", patch |-> patch,
                              hold |-> Patched(model, patch)]]
            BY <1>5, <2>4 DEF UpdateReads
        <3>2. Patched(model, patch) \in Model
            BY <1>1, <2>1, <2>4
        <3> QED
            BY <1>1, <1>5, <2>2, <3>1, <3>2 DEF UpdateReads, AdminCall, AdminPC, RegistryOp
    <2> QED
        BY <1>5, <2>3, <2>4 DEF UpdateReads
<1>6. CASE UpdateFinds(a)
    <2>1. Credential(model.key, admins[a].patch) \in Keys \/ model = NoModel
        BY <1>1 DEF Credential, Keys, Model, AdminCall, Patch
    <2>2. [id |-> model.id, enabled |-> admins[a].hold.enabled,
           key |-> Credential(model.key, admins[a].patch)] \in Model \/ model = NoModel
        BY <1>1, <1>6, <2>1 DEF UpdateFinds, Model
    <2> QED
        BY <1>1, <1>6, <2>2 DEF UpdateFinds, AdminAt, AdminCall, AdminPC, ModelsWritten
<1>7. CASE UpdateSaves(a)
    <2>1. a \notin ModelsWritten
        BY <1>7 DEF UpdateSaves, ModelsWritten
    <2>2. AdminEnds(a) \/ AdminAt(a, "invalidate")
        BY <1>7 DEF UpdateSaves
    <2>3. /\ admins' \in [Admins -> AdminCall]
          /\ \A b \in Admins \ {a} : admins'[b] = admins[b]
          /\ admins'[a].pc \in {"invalidate", "closed"}
        BY <1>1, <1>2, <2>2 DEF AdminEnds, AdminAt, AdminCall, AdminPC
    <2> QED
        BY <1>1, <1>7, <2>1, <2>3 DEF UpdateSaves, WriteModel
<1>8. CASE DeleteFinds(a)
    BY <1>1, <1>2, <1>8 DEF DeleteFinds, AdminEnds, AdminCall, AdminPC, RegistryOp, ModelsWritten
<1>9. CASE DeleteRemoves(a)
    <2>1. registry' = registry \/ \E m : WriteModel(m)
        BY <1>9 DEF DeleteRemoves
    <2> QED
        BY <1>1, <1>9, <2>1 DEF DeleteRemoves, WriteModel, AdminAt, AdminCall, AdminPC, ModelsWritten
<1>10. CASE Invalidate(a)
    BY <1>1, <1>2, <1>10 DEF Invalidate, AdminEnds, ModelsWritten
<1> QED
    BY <1>3, <1>4, <1>5, <1>6, <1>7, <1>8, <1>9, <1>10 DEF AdminStep

\* A reader moves itself; what it stores or serves is what it read or what was stored.
LEMMA ReaderFrame ==
    ASSUME RegistryTypeInv, NEW r \in Readers, ReaderStep(r)
    PROVE  /\ lookups' \in [Readers -> ReaderLookup]
           /\ \A q \in Readers \ {r} : lookups'[q] = lookups[q]
           /\ lookups'[r].now \in {lookups[r].now, clock}
           /\ lookups'[r].pc = "store" =>
                  lookups'[r].version = registry.version /\ cache' = cache
           /\ lookups'[r].pc = "served" =>
                  \/ /\ lookups[r].pc = "store" /\ lookups'[r].version = lookups[r].version
                     /\ lookups'[r].now = lookups[r].now
                  \/ /\ CacheIsFresh /\ lookups'[r].version = cache.version
                     /\ lookups'[r].now = clock
           /\ cache' \in Cache /\ lastGood' \in [known: BOOLEAN, version: Versions]
           /\ \/ cache' = cache
              \/ lookups[r].pc = "store" /\ cache' = FilledBy(r)
           /\ UNCHANGED <<model, registry, clock, admins>>
<1>1. /\ lookups \in [Readers -> ReaderLookup]
      /\ cache \in Cache
      /\ lastGood \in [known: BOOLEAN, version: Versions]
      /\ clock \in Clock
      /\ registry.version \in Versions
    BY DEF RegistryTypeInv, RegistryTypeOK, ReaderLookup
<1>2. CASE ResolveModels(r)
    <2>1. 0 \in Versions
        BY MaxVersionIsNat DEF Versions
    <2>2. lookups' \in [Readers -> ReaderLookup] /\ \A q \in Readers \ {r} : lookups'[q] = lookups[q]
        BY <1>1, <1>2, <2>1 DEF ResolveModels, ReaderLookup, ReaderPC, Cache
    <2>3. /\ lookups'[r].now = clock
          /\ \/ CacheIsFresh /\ lookups'[r].pc = "served" /\ lookups'[r].version = cache.version
             \/ lookups'[r].pc = "list"
        BY <1>1, <1>2 DEF ResolveModels
    <2>4. UNCHANGED <<model, registry, clock, cache, lastGood, admins>>
        BY <1>2 DEF ResolveModels
    <2> QED
        BY <1>1, <2>2, <2>3, <2>4
<1>3. CASE ListAll(r)
    <2> DEFINE l == [lookups[r] EXCEPT !.pc = "store", !.version = registry.version]
    <2>1. l \in ReaderLookup /\ l.now = lookups[r].now /\ l.pc = "store" /\ l.version = registry.version
        BY <1>1 DEF ReaderLookup, ReaderPC
    <2>2. lookups' = [lookups EXCEPT ![r] = l]
        BY <1>3 DEF ListAll
    <2>3. UNCHANGED <<model, registry, clock, cache, lastGood, admins>>
        BY <1>3 DEF ListAll
    <2> HIDE DEF l
    <2> QED
        BY <1>1, <2>1, <2>2, <2>3
<1>4. CASE ListFails(r)
    <2> DEFINE end == IF lastGood.known THEN "stale" ELSE "none"
    <2> DEFINE l == [lookups[r] EXCEPT !.pc = end, !.version = lastGood.version]
    <2>1. end \in {"stale", "none"} /\ lastGood.version \in Versions
        BY <1>1
    <2>2. l \in ReaderLookup /\ l.now = lookups[r].now /\ l.pc \in {"stale", "none"}
        BY <1>1, <2>1 DEF ReaderLookup, ReaderPC
    <2>3. lookups' = [lookups EXCEPT ![r] = l]
        BY <1>4 DEF ListFails
    <2>4. UNCHANGED <<model, registry, clock, cache, lastGood, admins>>
        BY <1>4 DEF ListFails
    <2> HIDE DEF end, l
    <2> QED
        BY <1>1, <2>2, <2>3, <2>4
<1>5. CASE StoreList(r)
    BY <1>1, <1>5 DEF StoreList, FilledBy, ReaderLookup, ReaderPC, Cache
<1> QED
    BY <1>2, <1>3, <1>4, <1>5 DEF ReaderStep

-----------------------------------------------------------------------------
(* The types.                                                              *)

LEMMA RegistryTypeInvInit == RegistryInit => RegistryTypeInv
<1> SUFFICES ASSUME RegistryInit PROVE RegistryTypeInv
    OBVIOUS
<1>1. Cardinality(Admins) \in Nat
    BY RegistryAssumption, FS_CardinalityType
<1>2. 0 \in Versions /\ 0 \in Clock
    BY <1>1, RegistryAssumption DEF Versions, MaxVersion, Clock
<1>3. model \in Model \cup {NoModel}
    BY <1>2 DEF RegistryInit, Model, Keys
<1>4. NewAdmin \in AdminCall
    BY DEF NewAdmin, AdminCall, AdminPC, RegistryOp, Patch, KeepAll
<1>5. RegistryTypeOK
    BY <1>2, <1>3, <1>4 DEF RegistryInit, RegistryTypeOK, AdminCall, Cache, Empty, ReaderPC
<1>6. Cardinality(ModelsWritten) \in Nat
    BY RegistryAssumption, FS_Subset, FS_CardinalityType DEF ModelsWritten
<1> QED
    BY <1>5, <1>6 DEF RegistryInit, RegistryTypeInv, OneVersionEach, HoldsModel, NewAdmin

LEMMA RegistryTypeInvStep == RegistryTypeInv /\ [RegistryNext]_registryVars => RegistryTypeInv'
<1> SUFFICES ASSUME RegistryTypeInv, [RegistryNext]_registryVars PROVE RegistryTypeInv'
    OBVIOUS
<1>1. CASE UNCHANGED registryVars
    BY <1>1 DEF registryVars, RegistryTypeInv, RegistryTypeOK, OneVersionEach, HoldsModel, ModelsWritten
<1>2. CASE ClockTicks
    <2>1. clock' \in Clock
        BY <1>2, RegistryAssumption DEF ClockTicks, RegistryTypeInv, RegistryTypeOK, Clock
    <2> QED
        BY <1>2, <2>1 DEF ClockTicks, RegistryTypeInv, RegistryTypeOK, OneVersionEach, HoldsModel, ModelsWritten
<1>3. CASE \E r \in Readers : ReaderStep(r)
    BY <1>3, ReaderFrame DEF RegistryTypeInv, RegistryTypeOK, OneVersionEach, HoldsModel, ModelsWritten, ReaderLookup
<1>4. ASSUME NEW a \in Admins, AdminStep(a) PROVE RegistryTypeInv'
    <2>1. HoldsModel'
        BY <1>4, AdminFrame DEF RegistryTypeInv, HoldsModel
    <2>2. registry' \in Registry
        BY <1>4, AdminFrame, WriteFrame DEF RegistryTypeInv, RegistryTypeOK, Registry
    <2>3. Empty \in Cache
        BY RegistryAssumption, FS_CardinalityType
        DEF Empty, Cache, Versions, MaxVersion, Clock
    <2>4. RegistryTypeOK'
        BY <1>4, <2>2, <2>3, AdminFrame DEF RegistryTypeInv, RegistryTypeOK, Registry, AdminCall
    <2>5. ASSUME registry' = registry PROVE OneVersionEach'
        <3>1. ModelsWritten \subseteq ModelsWritten' /\ ModelsWritten' \subseteq Admins
            BY <1>4, <2>5, AdminFrame DEF ModelsWritten
        <3>2. Cardinality(ModelsWritten) <= Cardinality(ModelsWritten')
            BY <3>1, RegistryAssumption, FS_Subset
        <3>3. Cardinality(ModelsWritten) \in Nat /\ Cardinality(ModelsWritten') \in Nat
            BY <3>1, RegistryAssumption, FS_Subset, FS_CardinalityType DEF ModelsWritten
        <3> QED
            BY <2>5, <3>2, <3>3, MaxVersionIsNat
            DEF RegistryTypeInv, RegistryTypeOK, OneVersionEach, Versions
    <2>6. ASSUME registry' # registry PROVE OneVersionEach'
        <3>1. /\ a \notin ModelsWritten /\ ModelsWritten' = ModelsWritten \cup {a}
              /\ registry'.version = registry.version + 1
            BY <1>4, <2>6, AdminFrame, WriteFrame DEF ModelsWritten
        <3>2. /\ Cardinality(ModelsWritten') = Cardinality(ModelsWritten) + 1
              /\ IsFiniteSet(ModelsWritten)
            BY <3>1, CountWritten
        <3>3. Cardinality(ModelsWritten) \in Nat /\ registry.version \in Nat
            BY <3>2, FS_CardinalityType, MaxVersionIsNat DEF RegistryTypeInv, RegistryTypeOK, Versions
        <3>4. OneVersionEach
            BY DEF RegistryTypeInv
        <3> QED
            BY <3>1, <3>2, <3>3, <3>4 DEF OneVersionEach
    <2> QED
        BY <2>1, <2>4, <2>5, <2>6 DEF RegistryTypeInv, OneVersionEach
<1> QED
    BY <1>1, <1>2, <1>3, <1>4 DEF RegistryNext

-----------------------------------------------------------------------------
(* The bound.                                                              *)

\* Time only passes, so a copy that was current at t stays so.
LEMMA CurrentStays ==
    ASSUME RegistryTypeInv, NEW a \in Admins, AdminStep(a),
           NEW v \in Versions, NEW t \in Nat, t <= clock, CurrentAt(v, t)
    PROVE  CurrentAt(v, t)'
<1>1. CASE registry' = registry
    BY <1>1 DEF CurrentAt
<1>2. CASE registry' # registry
    BY <1>2, AdminFrame, WriteFrame DEF CurrentAt
<1> QED
    BY <1>1, <1>2

LEMMA RegistryInvInit == RegistryInit => RegistryInv
<1> SUFFICES ASSUME RegistryInit PROVE RegistryInv
    OBVIOUS
<1>1. /\ clock = 0 /\ cache.at = 0 /\ ~ cache.filled
      /\ \A r \in Readers : lookups[r].pc = "idle" /\ lookups[r].now = 0
    BY DEF RegistryInit, Empty
<1> QED
    BY <1>1, RegistryTypeInvInit DEF RegistryInv, PastTimes, CopiesDated, StaleBounded

LEMMA RegistryInvStep == RegistryInv /\ [RegistryNext]_registryVars => RegistryInv'
<1> SUFFICES ASSUME RegistryInv, [RegistryNext]_registryVars PROVE RegistryInv'
    OBVIOUS
<1>1. RegistryTypeInv /\ RegistryTypeInv' /\ PastTimes /\ CopiesDated /\ StaleBounded
    BY RegistryTypeInvStep DEF RegistryInv
<1>2. /\ lookups \in [Readers -> ReaderLookup] /\ cache \in Cache /\ clock \in Nat
      /\ registry \in [version: Versions, ended: [Versions -> Clock]]
      /\ \A v \in Versions : registry.ended[v] \in Nat
      /\ \A r \in Readers : lookups[r].now \in Nat /\ lookups[r].version \in Versions
      /\ cache.version \in Versions /\ cache.at \in Nat
      /\ TTL \in Nat \ {0}
    BY <1>1, RegistryAssumption
    DEF RegistryTypeInv, RegistryTypeOK, ReaderLookup, Cache, Clock
<1>3. CASE UNCHANGED registryVars
    BY <1>1, <1>3 DEF registryVars, RegistryInv, PastTimes, CopiesDated, CurrentAt, StaleBounded
<1>4. CASE ClockTicks
    BY <1>1, <1>2, <1>4 DEF ClockTicks, RegistryInv, PastTimes, CopiesDated, CurrentAt, StaleBounded
<1>5. ASSUME NEW a \in Admins, AdminStep(a) PROVE RegistryInv'
    <2>1. UNCHANGED <<clock, lookups>> /\ cache' \in {cache, Empty}
        BY <1>1, <1>5, AdminFrame
    <2>2. PastTimes'
        BY <1>1, <1>2, <2>1 DEF PastTimes, Empty
    <2>3. \A v \in Versions, t \in Nat : t <= clock /\ CurrentAt(v, t) => CurrentAt(v, t)'
        BY <1>1, <1>5, CurrentStays
    <2>4. CopiesDated'
        <3>1. cache'.filled => cache' = cache
            BY <2>1 DEF Empty
        <3> QED
            BY <1>1, <1>2, <2>1, <2>3, <3>1 DEF CopiesDated, PastTimes, CurrentAt
    <2>5. StaleBounded'
        <3>1. CASE registry' = registry
            BY <1>1, <2>1, <3>1 DEF StaleBounded
        <3>2. CASE registry' # registry
            <4>1. /\ registry'.ended[registry.version] = clock
                  /\ \A v \in Versions \ {registry.version} : registry'.ended[v] = registry.ended[v]
                BY <1>1, <1>5, <3>2, AdminFrame, WriteFrame
            <4>2. \A r \in Readers : lookups[r].now < clock + TTL
                BY <1>1, <1>2 DEF PastTimes
            <4> QED
                BY <1>1, <1>2, <2>1, <4>1, <4>2 DEF StaleBounded
        <3> QED
            BY <3>1, <3>2
    <2> QED
        BY <1>1, <2>2, <2>4, <2>5 DEF RegistryInv
<1>6. ASSUME NEW r \in Readers, ReaderStep(r) PROVE RegistryInv'
    <2>1. UNCHANGED <<registry, clock>>
        BY <1>1, <1>6, ReaderFrame
    <2>2. /\ \A q \in Readers \ {r} : lookups'[q] = lookups[q]
          /\ lookups'[r].now \in {lookups[r].now, clock}
        BY <1>1, <1>6, ReaderFrame
    <2>3. \/ cache' = cache
          \/ /\ lookups[r].pc = "store"
             /\ cache' = [filled |-> TRUE, version |-> lookups[r].version, at |-> lookups[r].now]
        BY <1>1, <1>6, ReaderFrame DEF FilledBy
    <2>4. PastTimes'
        BY <1>1, <1>2, <2>1, <2>2, <2>3 DEF PastTimes
    <2>5. CopiesDated'
        <3>1. lookups'[r].pc = "store" => lookups'[r].version = registry.version
            BY <1>1, <1>6, ReaderFrame
        <3>2. cache'.filled => CurrentAt(cache'.version, cache'.at)
            BY <1>1, <2>3 DEF CopiesDated
        <3> QED
            BY <1>1, <2>1, <2>2, <3>1, <3>2 DEF CopiesDated, CurrentAt
    <2>6. StaleBounded'
        <3>1. ASSUME lookups'[r].pc = "served"
              PROVE  \/ lookups'[r].version = registry.version
                     \/ lookups'[r].now < registry.ended[lookups'[r].version] + TTL
            <4>1. CASE /\ lookups[r].pc = "store" /\ lookups'[r].version = lookups[r].version
                       /\ lookups'[r].now = lookups[r].now
                BY <1>1, <1>2, <4>1 DEF CopiesDated, CurrentAt
            <4>2. CASE /\ CacheIsFresh /\ lookups'[r].version = cache.version
                       /\ lookups'[r].now = clock
                BY <1>1, <1>2, <4>2 DEF CopiesDated, CurrentAt, CacheIsFresh
            <4> QED
                BY <1>1, <1>6, <3>1, <4>1, <4>2, ReaderFrame
        <3> QED
            BY <1>1, <2>1, <2>2, <3>1 DEF StaleBounded
    <2> QED
        BY <1>1, <2>4, <2>5, <2>6 DEF RegistryInv
<1> QED
    BY <1>3, <1>4, <1>5, <1>6 DEF RegistryNext

\* The document, the cache and the calls keep their types, and every write finds a
\* version that is left.
THEOREM RegistryTypes == RegistrySpec => []RegistryTypeOK
<1>1. RegistryTypeInv => RegistryTypeOK
    BY DEF RegistryTypeInv
<1> QED
    BY <1>1, RegistryTypeInvInit, RegistryTypeInvStep, PTL DEF RegistrySpec

\* get_all_available_models never serves a list that had been out of date for the TTL
\* when it was asked, whatever the edits, invalidations and slow reads that overlap.
THEOREM BoundedStaleness == RegistrySpec => []StaleBounded
<1>1. RegistryInv => StaleBounded
    BY DEF RegistryInv
<1> QED
    BY <1>1, RegistryInvInit, RegistryInvStep, PTL DEF RegistrySpec

-----------------------------------------------------------------------------
(* The login sessions and the codes.                                       *)

\* What is known of a request: it names sessions that were created,
NamesKnown(q) == q.sid \in 0..logins /\ q.members \subseteq 1..logins

\* a session where it works on one, and none where it has none;
HasSession(q) ==
    /\ q.pc \in {"touch get", "touch set", "delete get", "delete", "srem"} => q.sid # Grace
    /\ q.pc \in {"exists", "insert"} \/ q.op = "login" => q.sid = Grace

\* once it has deleted its session, only a touch brings that back;
HasDeleted(q) ==
    q.pc = "srem" \/ (q.pc = "create" /\ q.sid # Grace) =>
        (q.sid \in live => q.sid \in revived)

\* and it compares a code that had attempts left.
HasAttempt(q) == q.pc \in {"wrong", "right"} => q.read.stored /\ q.read.attempts < 3

RequestInv(q) == NamesKnown(q) /\ HasSession(q) /\ HasDeleted(q) /\ HasAttempt(q)

\* Session ids are not used again.
SessionsKnown == live \subseteq 1..logins /\ index \subseteq 1..logins /\ ended \subseteq 1..logins

Inv ==
    /\ LoginTypeOK
    /\ SessionsKnown
    /\ \A r \in Slots : RequestInv(reqs[r])
    /\ IndexCovers
    /\ EndedStaysEnded

-----------------------------------------------------------------------------
(* Requests.                                                               *)

Code == [stored: BOOLEAN, attempts: 0..3]

LEMMA RequestType ==
    ASSUME NEW q \in LoginRequest
    PROVE  /\ q = [op |-> q.op, pc |-> q.pc, sid |-> q.sid, active |-> q.active,
                   members |-> q.members, found |-> q.found, read |-> q.read]
           /\ q.op \in LoginOps /\ q.pc \in LoginPC /\ q.sid \in Sids \cup {Grace}
           /\ q.active \in BOOLEAN /\ q.members \subseteq Sids /\ q.found \in BOOLEAN
           /\ q.read \in Code
BY DEF LoginRequest, Code

LEMMA NoRequestType ==
    /\ NoRequest \in LoginRequest
    /\ NoRequest.pc = "idle" /\ NoRequest.op = "use" /\ NoRequest.sid = Grace
    /\ NoRequest.members = {}
BY DEF NoRequest, LoginRequest, NoCode, LoginOps, AuthOps, LoginPC

LEMMA NoRequestInv == LoginTypeOK => RequestInv(NoRequest)
BY LoginConstants, NoRequestType
   DEF RequestInv, NamesKnown, HasSession, HasDeleted, HasAttempt, LoginTypeOK, Grace

\* A request that goes on.
LEMMA ToType ==
    ASSUME LoginTypeOK, NEW r \in Slots, NEW pc \in LoginPC, To(r, pc)
    PROVE  /\ reqs' \in [Slots -> LoginRequest]
           /\ \A q \in Slots \ {r} : reqs'[q] = reqs[q]
           /\ reqs'[r] = [reqs[r] EXCEPT !.pc = pc]
<1>1. reqs \in [Slots -> LoginRequest]
    BY DEF LoginTypeOK
<1>2. [reqs[r] EXCEPT !.pc = pc] \in LoginRequest
    BY <1>1 DEF LoginRequest
<1> QED
    BY <1>1, <1>2 DEF To

LEMMA AnsweredType ==
    ASSUME LoginTypeOK, NEW r \in Slots, Answered(r)
    PROVE  /\ reqs' \in [Slots -> LoginRequest]
           /\ \A q \in Slots \ {r} : reqs'[q] = reqs[q]
           /\ reqs'[r] = NoRequest
BY NoRequestType DEF LoginTypeOK, Answered

\* A step of a request moves that request only, and what it takes with it is known.
Moves(r) ==
    /\ reqs' \in [Slots -> LoginRequest]
    /\ \A q \in Slots \ {r} : reqs'[q] = reqs[q]
    /\ NamesKnown(reqs'[r]) /\ HasSession(reqs'[r]) /\ HasAttempt(reqs'[r])

LEMMA MovesTo ==
    ASSUME Inv, NEW r \in Slots, NEW pc \in LoginPC, To(r, pc),
           pc \in {"touch get", "touch set", "delete get", "delete", "srem"} =>
               reqs[r].sid # Grace,
           pc \in {"exists", "insert"} => reqs[r].sid = Grace,
           pc \notin {"wrong", "right"}
    PROVE  Moves(r)
<1>1. reqs \in [Slots -> LoginRequest] /\ RequestInv(reqs[r])
    BY DEF Inv, LoginTypeOK
<1>2. reqs'[r] = [reqs[r] EXCEPT !.pc = pc]
    BY ToType DEF Inv
<1>3. /\ reqs'[r].pc = pc /\ reqs'[r].sid = reqs[r].sid /\ reqs'[r].op = reqs[r].op
      /\ reqs'[r].members = reqs[r].members
    BY <1>1, <1>2 DEF LoginRequest
<1> QED
    BY <1>1, <1>3, ToType DEF Inv, Moves, RequestInv, NamesKnown, HasSession, HasAttempt

LEMMA MovesAnswered ==
    ASSUME Inv, NEW r \in Slots, Answered(r)
    PROVE  Moves(r)
BY AnsweredType, NoRequestInv DEF Inv, Moves, RequestInv

\* The places a request gets to that takes more with it than its place.
LEMMA TakesPC ==
    ASSUME LoginTypeOK, NEW r \in Slots,
           DeleteGet(r) \/ Members(r) \/ Auth(r) \/ Fetch(r) \/ Verify(r) \/ Right(r)
    PROVE  \/ Answered(r)
           \/ reqs'[r].pc \in {"delete", "wipe", "put"}
           \/ Verify(r) /\ reqs'[r].pc \in {"wrong", "right", "burn"}
<1>1. reqs \in [Slots -> LoginRequest]
    BY DEF LoginTypeOK
<1>2. CASE DeleteGet(r)
    BY <1>1, <1>2 DEF DeleteGet, NextOfRotate, LoginRequest
<1>3. CASE Members(r)
    BY <1>1, <1>3 DEF Members, LoginRequest
<1>4. CASE Auth(r)
    BY <1>1, <1>4 DEF Auth, LoginRequest
<1>5. CASE Fetch(r)
    <2>1. \/ Answered(r)
          \/ \E active : reqs' = [reqs EXCEPT ![r].pc = "put", ![r].active = active]
        BY <1>5 DEF Fetch
    <2>2. ASSUME NEW active, reqs' = [reqs EXCEPT ![r].pc = "put", ![r].active = active]
          PROVE  reqs'[r].pc = "put"
        BY <1>1, <2>2 DEF LoginRequest
    <2> QED
        BY <2>1, <2>2
<1>6. CASE Verify(r)
    <2>1. \/ Answered(r) \/ To(r, "burn")
          \/ \E answer \in {"wrong", "right"} :
                reqs' = [reqs EXCEPT ![r].read = code, ![r].pc = answer]
        BY <1>6 DEF Verify
    <2>3. To(r, "burn") => reqs'[r].pc = "burn"
        BY <1>1 DEF To, LoginRequest
    <2>2. ASSUME NEW answer, reqs' = [reqs EXCEPT ![r].read = code, ![r].pc = answer]
          PROVE  reqs'[r].pc = answer
        BY <1>1, <2>2 DEF LoginRequest
    <2> QED
        BY <1>6, <2>1, <2>2, <2>3
<1>7. CASE Right(r)
    BY <1>1, <1>7 DEF Right, LoginRequest
<1> QED
    BY <1>2, <1>3, <1>4, <1>5, <1>6, <1>7

LEMMA RequestMoves ==
    ASSUME Inv, NEW r \in Slots, RequestStep(r)
    PROVE  Moves(r)
<1>1. /\ reqs \in [Slots -> LoginRequest] /\ reqs[r] \in LoginRequest
      /\ RequestInv(reqs[r])
    BY DEF Inv, LoginTypeOK
<1>2. NextAct(r) \in LoginPC /\ (NextAct(r) \in {"touch get", "delete get"} => reqs[r].sid # Grace)
      /\ NextAct(r) \in {"create", "delete get", "touch get", "act"}
    BY DEF NextAct, LoginPC
<1>3. CASE Resolve(r) \/ Refresh(r) \/ Load(r) \/ Perform(r)
    BY <1>2, <1>3, MovesTo, MovesAnswered DEF Resolve, Refresh, Load, Perform, LoginPC
<1>4. CASE TouchGet(r) \/ TouchSet(r)
    BY <1>1, <1>4, MovesTo, MovesAnswered
    DEF TouchGet, TouchSet, AfterTouch, LoginPC, In, RequestInv, HasSession
<1>5. CASE Delete(r) \/ Srem(r)
    BY <1>1, <1>5, MovesTo, MovesAnswered
    DEF Delete, Srem, AfterDelete, LoginPC, In, RequestInv, HasSession
<1>6. CASE Wipe(r) \/ NewLogin(r) \/ SendGet(r) \/ SendSet(r) \/ Wrong(r)
            \/ Burn(r)
    BY <1>6, MovesTo, MovesAnswered
    DEF Wipe, NewLogin, SendGet, SendSet, Wrong, Burn, LoginPC
<1>7. CASE Exists(r) \/ Insert(r) \/ Update(r)
    BY <1>1, <1>7, MovesTo, MovesAnswered
    DEF Exists, Insert, Update, LoginPC, In, RequestInv, HasSession
<1>8. ASSUME NEW n \in LoginRequest, reqs' = [reqs EXCEPT ![r] = n],
             n.sid = reqs[r].sid, n.op = reqs[r].op,
             n.members \in {reqs[r].members, index},
             n.pc \in {"create", "delete", "wipe", "put", "wrong", "right"},
             n.pc = "delete" => reqs[r].sid # Grace,
             HasAttempt(n)
      PROVE  Moves(r)
    BY <1>1, <1>8 DEF Inv, SessionsKnown, Moves, RequestInv, NamesKnown, HasSession
<1>9. CASE DeleteGet(r)
    <2> DEFINE n == [reqs[r] EXCEPT !.found = (reqs[r].sid \in live),
                                    !.pc = IF reqs[r].op = "rotate" THEN NextOfRotate
                                           ELSE "delete"]
    <2>1. reqs' = [reqs EXCEPT ![r] = n]
        BY <1>9 DEF DeleteGet
    <2>2. (reqs[r].sid \in live) \in BOOLEAN
        OBVIOUS
    <2>3. [reqs[r] EXCEPT !.found = (reqs[r].sid \in live)] \in LoginRequest
        BY <1>1, <2>2 DEF LoginRequest
    <2>4. /\ n \in LoginRequest /\ n.pc = "delete"
          /\ n.sid = reqs[r].sid /\ n.op = reqs[r].op /\ n.members = reqs[r].members
        BY <1>1, <2>3 DEF LoginRequest, LoginPC, NextOfRotate
    <2> HIDE DEF n
    <2> QED
        BY <1>1, <1>8, <1>9, <2>1, <2>4 DEF DeleteGet, In, RequestInv, HasSession, HasAttempt
<1>10. CASE Members(r)
    <2> DEFINE n == [reqs[r] EXCEPT !.members = index, !.pc = "wipe"]
    <2>1. n \in LoginRequest /\ n.sid = reqs[r].sid /\ n.op = reqs[r].op
        BY <1>1 DEF Inv, LoginTypeOK, LoginRequest, LoginPC
    <2>2. n.pc = "wipe" /\ n.members = index
        BY <1>1 DEF LoginRequest
    <2>3. Answered(r) \/ reqs' = [reqs EXCEPT ![r] = n]
        BY <1>10 DEF Members
    <2> HIDE DEF n
    <2> QED
        BY <1>8, <2>1, <2>2, <2>3, MovesAnswered DEF HasAttempt
<1>11. CASE Auth(r) \/ Fetch(r) \/ Right(r)
    <2> DEFINE n(active) == [reqs[r] EXCEPT !.pc = "put", !.active = active]
    <2>1. account.active \in BOOLEAN
        BY DEF Inv, LoginTypeOK
    <2>2. \A active \in BOOLEAN :
              /\ n(active) \in LoginRequest /\ n(active).sid = reqs[r].sid
              /\ n(active).op = reqs[r].op /\ n(active).members = reqs[r].members
              /\ n(active).pc = "put"
        BY <1>1 DEF LoginRequest, LoginPC
    <2>3. Answered(r) \/ \E active \in BOOLEAN : reqs' = [reqs EXCEPT ![r] = n(active)]
        BY <1>11, <2>1 DEF Auth, Fetch, Right
    <2> HIDE DEF n
    <2> QED
        BY <1>8, <2>2, <2>3, MovesAnswered DEF HasAttempt
<1>12. CASE Verify(r)
    <2> DEFINE n(answer) == [reqs[r] EXCEPT !.read = code, !.pc = answer]
    <2>1. code \in Code
        BY DEF Inv, LoginTypeOK, Code
    <2>2. \A answer \in {"wrong", "right"} :
              /\ n(answer) \in LoginRequest /\ n(answer).sid = reqs[r].sid
              /\ n(answer).op = reqs[r].op /\ n(answer).members = reqs[r].members
              /\ n(answer).pc = answer /\ n(answer).read = code
        BY <1>1, <2>1 DEF LoginRequest, LoginPC, Code
    <2>3. \/ Answered(r) \/ To(r, "burn")
          \/ /\ code.stored /\ ~ (code.attempts >= 3)
             /\ \E answer \in {"wrong", "right"} : reqs' = [reqs EXCEPT ![r] = n(answer)]
        BY <1>12 DEF Verify
    <2>4. To(r, "burn") => Moves(r)
        BY MovesTo DEF LoginPC
    <2> HIDE DEF n
    <2> QED
        BY <1>8, <2>1, <2>2, <2>3, <2>4, MovesAnswered DEF HasAttempt, Code
<1> QED
    BY <1>3, <1>4, <1>5, <1>6, <1>7, <1>9, <1>10, <1>11, <1>12 DEF RequestStep

-----------------------------------------------------------------------------
(* The stored sessions.                                                    *)

StoreType ==
    /\ live \subseteq Sids /\ index \subseteq Sids /\ logins \in 0..MaxLogins
    /\ ended \subseteq Sids /\ revived \subseteq Sids /\ missed \subseteq Sids

\* Sessions that were created come back only by a touch.
NoReturn ==
    \A sid \in 1..logins : sid \in live' \ revived' => sid \in live \ revived

LoginsStored == StoreType /\ SessionsKnown /\ IndexCovers /\ EndedStaysEnded

LEMMA Unstored == LoginsStored /\ UNCHANGED sessions => LoginsStored' /\ NoReturn /\ logins' = logins
BY DEF sessions, LoginsStored, StoreType, SessionsKnown, IndexCovers, EndedStaysEnded, NoReturn

LEMMA StoreStep ==
    ASSUME Inv, NEW r \in Slots, RequestStep(r)
    PROVE  LoginsStored' /\ NoReturn /\ logins' \in {logins, logins + 1}
<1> DEFINE sid == reqs[r].sid
<1>1. /\ LoginsStored /\ RequestInv(reqs[r])
      /\ reqs[r].members \subseteq Sids
    BY DEF Inv, LoginsStored, StoreType, LoginTypeOK, LoginRequest
<1>2. logins \in Nat /\ 1..logins \subseteq Sids
    BY <1>1, LoginConstants DEF LoginsStored, StoreType, Sids
<1>3. /\ sid # Grace => sid \in 1..logins
      /\ reqs[r].members \subseteq 1..logins
    BY <1>1, <1>2 DEF RequestInv, NamesKnown, Grace
<1>4. ASSUME sid \in 1..logins, UNCHANGED <<index, logins, ended, missed>>,
             live' = live \cup {sid},
             revived' = IF sid \in live THEN revived ELSE revived \cup {sid}
      PROVE  LoginsStored' /\ NoReturn
    <2>1. revived' \subseteq Sids /\ live' \subseteq 1..logins /\ live' \subseteq Sids
        BY <1>1, <1>2, <1>4 DEF LoginsStored, StoreType, SessionsKnown
    <2>2. live' \ revived' \subseteq live \ revived
        BY <1>4
    <2> QED
        BY <1>1, <1>4, <2>1, <2>2
        DEF LoginsStored, StoreType, SessionsKnown, IndexCovers, EndedStaysEnded, NoReturn
<1>5. ASSUME sid \in 1..logins, UNCHANGED <<logins, missed>>,
             live' = live \ {sid}, revived' = revived \ {sid}, index' = index,
             ended' \in {ended, ended \cup {sid}}
      PROVE  LoginsStored' /\ NoReturn
    <2>1. ended' \subseteq 1..logins /\ ended' \subseteq Sids
        BY <1>1, <1>2, <1>5 DEF LoginsStored, StoreType, SessionsKnown
    <2> QED
        BY <1>1, <1>5, <2>1
        DEF LoginsStored, StoreType, SessionsKnown, IndexCovers, EndedStaysEnded, NoReturn
<1>6. ASSUME sid \in 1..logins, UNCHANGED <<live, logins, revived, missed>>,
             sid \in live => sid \in revived, index' = index \ {sid},
             ended' \in {ended, ended \cup {sid}}
      PROVE  LoginsStored' /\ NoReturn
    <2>1. ended' \subseteq 1..logins /\ ended' \subseteq Sids
        BY <1>1, <1>2, <1>6 DEF LoginsStored, StoreType, SessionsKnown
    <2> QED
        BY <1>1, <1>6, <2>1
        DEF LoginsStored, StoreType, SessionsKnown, IndexCovers, EndedStaysEnded, NoReturn
<1>7. CASE TouchSet(r)
    BY <1>1, <1>3, <1>4, <1>7 DEF TouchSet, In, RequestInv, HasSession
<1>8. CASE Delete(r)
    <2>1. sid # Grace /\ ended' \in {ended, ended \cup {sid}}
        BY <1>1, <1>8 DEF Delete, AfterDelete, In, RequestInv, HasSession
    <2> QED
        BY <1>3, <1>5, <1>8, <2>1 DEF Delete
<1>9. CASE Srem(r)
    <2>1. sid # Grace /\ ended' \in {ended, ended \cup {sid}} /\ (sid \in live => sid \in revived)
        BY <1>1, <1>9 DEF Srem, AfterDelete, In, RequestInv, HasSession, HasDeleted
    <2> QED
        BY <1>3, <1>6, <1>9, <2>1 DEF Srem
<1>10. CASE Wipe(r)
    BY <1>1, <1>3, <1>10
    DEF Wipe, LoginsStored, StoreType, SessionsKnown, IndexCovers, EndedStaysEnded, NoReturn
<1>11. CASE NewLogin(r)
    <2> DEFINE new == logins + 1
    <2>1. /\ sid # Grace => sid \in 1..logins
          /\ sid # Grace /\ sid \in live => sid \in revived
        BY <1>1, <1>3, <1>11 DEF NewLogin, In, RequestInv, HasDeleted
    <2>2. /\ new \in Sids /\ new \notin 1..logins /\ 1..logins \subseteq 1..new
          /\ new \in 1..new /\ new \in 0..MaxLogins
        BY <1>1, <1>2, <1>11, LoginConstants DEF NewLogin, Sids
    <2>3. /\ logins' = new /\ live' = live \cup {new} /\ index' = index \cup {new}
          /\ ended' = IF sid = Grace THEN ended ELSE ended \cup {sid}
          /\ UNCHANGED <<revived, missed>>
        BY <1>11 DEF NewLogin, Indexed
    <2> HIDE DEF new, sid
    <2> QED
        BY <1>1, <1>2, <2>1, <2>2, <2>3
        DEF LoginsStored, StoreType, SessionsKnown, IndexCovers, EndedStaysEnded, NoReturn, new
<1>12. CASE UNCHANGED sessions
    BY <1>1, <1>12, Unstored
<1> QED
    BY <1>7, <1>8, <1>9, <1>10, <1>11, <1>12
    DEF RequestStep, Resolve, Refresh, TouchGet, Load, Perform, DeleteGet, Members, Auth,
        Fetch, Update, Exists, Insert, SendGet, SendSet, Verify, Burn, Wrong, Right

\* A request that has just deleted its session, or removed it from the index, finds it
\* gone; others get to creating a session only if they have none.
LEMMA DeletedStep ==
    ASSUME Inv, NEW r \in Slots, RequestStep(r)
    PROVE  \A q \in Slots : HasDeleted(reqs[q])'
<1> DEFINE Good == reqs'[r].pc = "srem" \/ (reqs'[r].pc = "create" /\ reqs'[r].sid # Grace) =>
                       (reqs'[r].sid \in live' => reqs'[r].sid \in revived')
<1>1. /\ reqs[r] \in LoginRequest /\ RequestInv(reqs[r]) /\ LoginTypeOK
      /\ Moves(r) /\ NoReturn /\ logins \in Nat
    BY RequestMoves, StoreStep, LoginConstants DEF Inv, LoginTypeOK
<1>2. ASSUME NEW q \in Slots \ {r}
      PROVE  HasDeleted(reqs[q])'
    <2>1. reqs'[q] = reqs[q] /\ RequestInv(reqs[q])
        BY <1>1 DEF Moves, Inv
    <2>2. reqs[q].sid # Grace => reqs[q].sid \in 1..logins
        BY <1>1, <2>1 DEF RequestInv, NamesKnown, Grace
    <2>3. reqs[q].pc = "srem" => reqs[q].sid # Grace
        BY <2>1 DEF RequestInv, HasSession
    <2> QED
        BY <1>1, <2>1, <2>2, <2>3 DEF RequestInv, HasDeleted, NoReturn
<1>3. ASSUME NEW pc \in LoginPC, To(r, pc)
      PROVE  /\ reqs'[r].pc = pc /\ reqs'[r].sid = reqs[r].sid
    <2>1. reqs'[r] = [reqs[r] EXCEPT !.pc = pc]
        BY <1>1, <1>3, ToType
    <2> QED
        BY <1>1, <2>1 DEF LoginRequest
<1>4. ASSUME Answered(r)
      PROVE  Good
    BY <1>4, <1>1, AnsweredType, NoRequestType
<1>5. ASSUME NEW pc \in LoginPC, To(r, pc), pc # "srem", pc = "create" => reqs[r].sid = Grace
      PROVE  Good
    BY <1>3, <1>5
<1>6. ASSUME Delete(r)
      PROVE  Good
    <2>1. reqs[r].sid \notin live'
        BY <1>6 DEF Delete
    <2>2. To(r, "srem") \/ To(r, "create") \/ Answered(r)
        BY <1>6 DEF Delete, AfterDelete
    <2> QED
        BY <1>3, <1>4, <2>1, <2>2 DEF LoginPC
<1>7. ASSUME Srem(r)
      PROVE  Good
    <2>1. reqs[r].sid \in live' => reqs[r].sid \in revived'
        BY <1>1, <1>7 DEF Srem, In, RequestInv, HasDeleted
    <2>2. To(r, "create") \/ Answered(r)
        BY <1>7 DEF Srem, AfterDelete
    <2> QED
        BY <1>3, <1>4, <2>1, <2>2 DEF LoginPC
<1>8. ASSUME Load(r) \/ Update(r) \/ Insert(r) \/ Exists(r) \/ Resolve(r) \/ Refresh(r)
           \/ TouchGet(r) \/ TouchSet(r)
      PROVE  Good
    BY <1>1, <1>4, <1>5, <1>8
    DEF Load, NextAct, Update, Insert, Exists, Resolve, Refresh, TouchGet, TouchSet, AfterTouch,
        In, RequestInv, HasSession, LoginPC
<1>9. ASSUME \/ Perform(r) \/ SendGet(r) \/ SendSet(r) \/ Burn(r)
             \/ Wrong(r) \/ Wipe(r) \/ NewLogin(r)
      PROVE  Good
    BY <1>4, <1>5, <1>9 DEF Perform, SendGet, SendSet, Burn, Wrong, Wipe, NewLogin, LoginPC
<1>10. ASSUME DeleteGet(r) \/ Members(r) \/ Auth(r) \/ Fetch(r) \/ Verify(r) \/ Right(r)
      PROVE  Good
    BY <1>1, <1>4, <1>10, TakesPC
<1>11. Good => HasDeleted(reqs[r])'
    BY DEF HasDeleted
<1> QED
    BY <1>2, <1>11, <1>6, <1>7, <1>8, <1>9, <1>10 DEF RequestStep

-----------------------------------------------------------------------------
(* The invariant.                                                          *)

LEMMA RestType ==
    ASSUME Inv, NEW r \in Slots, RequestStep(r)
    PROVE  /\ account' \in [known: BOOLEAN, active: BOOLEAN]
           /\ code' \in Code
           /\ begun' = begun
           /\ uncounted' \in BOOLEAN /\ tried' \in Nat /\ accepted' \in Nat
<1>1. /\ account \in [known: BOOLEAN, active: BOOLEAN] /\ code \in Code
      /\ uncounted \in BOOLEAN /\ tried \in Nat /\ accepted \in Nat
      /\ reqs[r] \in LoginRequest /\ HasAttempt(reqs[r])
    BY DEF Inv, LoginTypeOK, Code, RequestInv
<1>2. reqs[r].active \in BOOLEAN /\ reqs[r].read \in Code
    BY <1>1, RequestType
<1>3. NoCode \in Code /\ [stored |-> TRUE, attempts |-> 0] \in Code
    BY DEF NoCode, Code
<1>4. CASE Update(r) \/ Insert(r)
    <2>1. \A active \in BOOLEAN :
              [known |-> TRUE, active |-> active] \in [known: BOOLEAN, active: BOOLEAN]
        OBVIOUS
    <2>2. account' = account \/ \E active \in BOOLEAN : Put(active)
        BY <1>2, <1>4 DEF Update, Insert
    <2>3. account' \in [known: BOOLEAN, active: BOOLEAN]
        BY <1>1, <2>1, <2>2 DEF Put
    <2> QED
        BY <1>1, <1>4, <2>3 DEF Update, Insert, codes
<1>5. CASE SendSet(r)
    BY <1>1, <1>3, <1>5 DEF SendSet, Verifying
<1>6. CASE Verify(r)
    <2>1. uncounted' \in BOOLEAN
        BY <1>1, <1>6 DEF Verify
    <2>2. code' \in Code
        BY <1>1, <1>3, <1>6 DEF Verify
    <2> QED
        BY <1>1, <1>6, <2>1, <2>2 DEF Verify
<1>7. CASE Wrong(r)
    <2>1. Counted(reqs[r].read) \in Code
        BY <1>1, <1>2, <1>7 DEF Wrong, In, HasAttempt, Counted, Code
    <2> QED
        BY <1>1, <1>7, <2>1 DEF Wrong
<1>8. CASE Right(r) \/ Burn(r)
    BY <1>1, <1>3, <1>8 DEF Right, Burn
<1> QED
    BY <1>1, <1>4, <1>5, <1>6, <1>7, <1>8
    DEF RequestStep, KeepRest, codes, Resolve, Refresh, TouchGet, TouchSet, Load, Perform,
        DeleteGet, Delete, Srem, Members, Wipe, NewLogin, Auth, Fetch, Exists, SendGet

LEMMA RequestKeepsInv ==
    ASSUME Inv, NEW r \in Slots, RequestStep(r)
    PROVE  Inv'
<1>1. Moves(r) /\ LoginsStored' /\ NoReturn /\ logins' \in {logins, logins + 1}
    BY RequestMoves, StoreStep
<1>2. LoginTypeOK'
    BY <1>1, RestType DEF Moves, LoginsStored, StoreType, LoginTypeOK, Code, Inv
<1>3. ASSUME NEW q \in Slots
      PROVE  /\ NamesKnown(reqs[q])'
             /\ HasSession(reqs[q])'
             /\ HasAttempt(reqs[q])'
    <2>1. NamesKnown(reqs'[q]) /\ HasSession(reqs'[q]) /\ HasAttempt(reqs'[q])
        BY <1>1 DEF Moves, Inv, RequestInv
    <2>2. logins \in Nat /\ 1..logins \subseteq 1..logins' /\ 0..logins \subseteq 0..logins'
        BY <1>1, LoginConstants DEF Inv, LoginTypeOK
    <2> QED
        BY <2>1, <2>2 DEF NamesKnown, HasSession, HasAttempt
<1> QED
    BY <1>1, <1>2, <1>3, DeletedStep DEF Inv, LoginsStored, RequestInv

LEMMA BeginKeepsInv ==
    ASSUME Inv, NEW r \in Slots, NEW op \in LoginOps, Begin(r, op)
    PROVE  Inv'
<1> DEFINE n(sid) == [NoRequest EXCEPT !.op = op, !.pc = FirstPC(op), !.sid = sid]
<1>1. PICK sid \in IF op \in AuthOps \cup RefreshOps THEN {Grace} \cup (1..logins) ELSE {Grace} :
          reqs' = [reqs EXCEPT ![r] = n(sid)]
    BY DEF Begin
<1>2. /\ FirstPC(op) \in {"resolve", "refresh", "fetch", "auth", "exists", "send get", "verify"}
      /\ FirstPC(op) = "exists" \/ op = "login" => op \notin AuthOps \cup RefreshOps
    BY DEF FirstPC, LoginOps, AuthOps, RefreshOps, AdminOps, CodeOps, OtherOps
<1>3. FirstPC(op) \in LoginPC
    BY <1>2 DEF LoginPC
<1>4. sid \in 0..logins /\ sid \in Sids \cup {Grace}
    BY <1>1, LoginConstants DEF Inv, LoginTypeOK, Grace, Sids
<1>5. /\ n(sid) \in LoginRequest /\ n(sid).pc = FirstPC(op) /\ n(sid).op = op
      /\ n(sid).sid = sid /\ n(sid).members = {}
    BY <1>3, <1>4, NoRequestType DEF LoginRequest
<1>6. NamesKnown(n(sid)) /\ HasSession(n(sid)) /\ HasDeleted(n(sid)) /\ HasAttempt(n(sid))
    BY <1>1, <1>2, <1>4, <1>5 DEF NamesKnown, HasSession, HasDeleted, HasAttempt
<1> HIDE DEF n
<1>7. UNCHANGED <<sessions, account, codes>> /\ begun' \in 0..MaxRequests
    BY LoginConstants DEF Begin, Inv, LoginTypeOK
<1>8. LoginTypeOK'
    BY <1>1, <1>5, <1>7 DEF Inv, LoginTypeOK, sessions, codes
<1>9. ASSUME NEW q \in Slots
      PROVE  RequestInv(reqs[q])'
    <2>1. reqs'[q] = IF q = r THEN n(sid) ELSE reqs[q]
        BY <1>1 DEF Inv, LoginTypeOK
    <2>2. RequestInv(reqs'[q])
        BY <1>6, <2>1 DEF Inv, RequestInv
    <2> QED
        BY <1>7, <2>2
        DEF sessions, RequestInv, NamesKnown, HasSession, HasDeleted, HasAttempt
<1> QED
    BY <1>7, <1>8, <1>9 DEF Inv, SessionsKnown, IndexCovers, EndedStaysEnded, sessions

LEMMA ExpiryKeepsInv ==
    ASSUME Inv, CodeExpires \/ \E sid \in Sids : Expire(sid)
    PROVE  Inv'
<1>1. /\ live' \subseteq live
      /\ UNCHANGED <<index, logins, ended, revived, missed, account, reqs, begun, tried,
                     accepted, uncounted>>
      /\ code' \in {code, NoCode}
    BY DEF CodeExpires, Expire, sessions, codes
<1>2. LoginTypeOK'
    <2>1. live' \subseteq Sids /\ code' \in [stored: BOOLEAN, attempts: 0..3]
        <3>1. NoCode \in [stored: BOOLEAN, attempts: 0..3]
            BY DEF NoCode
        <3>2. live \subseteq Sids /\ code \in [stored: BOOLEAN, attempts: 0..3]
            BY DEF Inv, LoginTypeOK
        <3> QED
            BY <1>1, <3>1, <3>2
    <2> QED
        BY <1>1, <2>1 DEF Inv, LoginTypeOK
<1>3. \A q \in Slots : RequestInv(reqs[q])'
    BY <1>1 DEF Inv, RequestInv, NamesKnown, HasSession, HasDeleted, HasAttempt
<1> QED
    BY <1>1, <1>2, <1>3 DEF Inv, SessionsKnown, IndexCovers, EndedStaysEnded

LEMMA InvInit == LoginInit => Inv
<1> SUFFICES ASSUME LoginInit PROVE Inv
    OBVIOUS
<1>1. LoginTypeOK
    <2>1. account \in [known: BOOLEAN, active: BOOLEAN]
        BY DEF LoginInit
    <2>2. code \in [stored: BOOLEAN, attempts: 0..3]
        BY DEF LoginInit, NoCode
    <2> QED
        <3>1. reqs \in [Slots -> LoginRequest]
            BY NoRequestType DEF LoginInit
        <3>2. logins \in 0..MaxLogins /\ begun \in 0..MaxRequests
            BY LoginConstants DEF LoginInit
        <3>3. /\ live \subseteq Sids /\ index \subseteq Sids /\ ended \subseteq Sids
              /\ revived \subseteq Sids /\ missed \subseteq Sids
            BY DEF LoginInit
        <3>4. tried \in Nat /\ accepted \in Nat /\ uncounted \in BOOLEAN
            BY DEF LoginInit
        <3> QED
            BY <2>1, <2>2, <3>1, <3>2, <3>3, <3>4 DEF LoginTypeOK
<1>2. \A q \in Slots : RequestInv(reqs[q])
    BY <1>1, NoRequestInv DEF LoginInit
<1> QED
    BY <1>1, <1>2 DEF Inv, LoginInit, SessionsKnown, IndexCovers, EndedStaysEnded

LEMMA InvStep == Inv /\ [LoginNext]_loginVars => Inv'
<1> SUFFICES ASSUME Inv, [LoginNext]_loginVars PROVE Inv'
    OBVIOUS
<1>1. CASE UNCHANGED loginVars
    BY <1>1
    DEF loginVars, sessions, codes, Inv, LoginTypeOK, SessionsKnown, IndexCovers,
        EndedStaysEnded, RequestInv, NamesKnown, HasSession, HasDeleted, HasAttempt
<1> QED
    BY <1>1, RequestKeepsInv, BeginKeepsInv, ExpiryKeepsInv DEF LoginNext

\* Requests, login sessions, the account and the code keep their types; a verification
\* goes on only with a code that has attempts left (verify_code).
THEOREM LoginTypes == LoginSpec => []LoginTypeOK
<1>1. Inv => LoginTypeOK
    BY DEF Inv
<1> QED
    BY <1>1, InvInit, InvStep, PTL DEF LoginSpec

\* logout_all reaches every stored session through the index of its user, but for
\* those a touch brought back and those another logout_all missed.
THEOREM IndexComplete == LoginSpec => []IndexCovers
<1>1. Inv => IndexCovers
    BY DEF Inv
<1> QED
    BY <1>1, InvInit, InvStep, PTL DEF LoginSpec

\* A session that was logged out or rotated is refused, but for those a touch brought
\* back.
THEOREM EndedForGood == LoginSpec => []EndedStaysEnded
<1>1. Inv => EndedStaysEnded
    BY DEF Inv
<1> QED
    BY <1>1, InvInit, InvStep, PTL DEF LoginSpec

-----------------------------------------------------------------------------
(* The attempts at a code.                                                 *)

IsVerifying(r) == reqs[r].pc \in {"wrong", "right"}

\* The attempts are those counted, in the code or in the one verification that has
\* still to write it.
AttemptsCounted ==
    ~uncounted =>
        /\ tried <= 3 /\ accepted <= 1
        /\ \A r, q \in Slots : IsVerifying(r) /\ IsVerifying(q) => r = q
        /\ \A r \in Slots :
              IsVerifying(r) => /\ tried = reqs[r].read.attempts + 1 /\ accepted = 0
                                /\ code.stored => code = reqs[r].read
        /\ (\A r \in Slots : ~IsVerifying(r)) /\ code.stored =>
              tried = code.attempts /\ accepted = 0

CodeInv == Inv /\ AttemptsCounted

\* A step that neither verifies nor sends a code.
LEMMA OtherKeepsCount ==
    ASSUME AttemptsCounted,
           UNCHANGED <<tried, accepted>>, uncounted => uncounted',
           code' \in {code, NoCode},
           \A q \in Slots : /\ (IsVerifying(q)' <=> IsVerifying(q))
                            /\ IsVerifying(q) => reqs'[q].read = reqs[q].read
    PROVE  AttemptsCounted'
<1>1. SUFFICES ASSUME ~uncounted' PROVE AttemptsCounted'
    BY DEF AttemptsCounted
<1>2. ~uncounted
    BY <1>1
<1>3. code'.stored => code' = code
    BY DEF NoCode
<1>4. \A q \in Slots :
          IsVerifying(q)' => /\ tried' = reqs'[q].read.attempts + 1 /\ accepted' = 0
                             /\ code'.stored => code' = reqs'[q].read
    BY <1>2, <1>3 DEF AttemptsCounted
<1> QED
    BY <1>2, <1>3, <1>4 DEF AttemptsCounted

\* The steps of requests that do.
CodeStep(r) == SendSet(r) \/ Verify(r) \/ Wrong(r) \/ Right(r)

\* A request that gets anywhere else compares no code.
LEMMA OtherPC ==
    ASSUME Inv, NEW r \in Slots, RequestStep(r), ~CodeStep(r)
    PROVE  ~IsVerifying(r) /\ ~(reqs'[r].pc \in {"wrong", "right"})
<1>1. reqs \in [Slots -> LoginRequest] /\ LoginTypeOK
    BY DEF Inv, LoginTypeOK
<1>2. ASSUME NEW pc \in LoginPC \ {"wrong", "right"}, To(r, pc)
      PROVE  ~(reqs'[r].pc \in {"wrong", "right"})
    <2>1. reqs'[r] = [reqs[r] EXCEPT !.pc = pc]
        BY <1>1, <1>2, ToType
    <2> QED
        BY <1>1, <1>2, <2>1 DEF LoginRequest
<1>3. ASSUME Answered(r)
      PROVE  ~(reqs'[r].pc \in {"wrong", "right"})
    BY <1>1, <1>3, AnsweredType, NoRequestType
<1>4. CASE Resolve(r) \/ Refresh(r) \/ TouchGet(r) \/ TouchSet(r) \/ Load(r) \/ Perform(r)
    BY <1>2, <1>3, <1>4
    DEF Resolve, Refresh, TouchGet, TouchSet, AfterTouch, Load, NextAct, Perform, In,
        IsVerifying, LoginPC
<1>5. CASE Delete(r) \/ Srem(r) \/ Wipe(r) \/ NewLogin(r)
    BY <1>2, <1>3, <1>5
    DEF Delete, Srem, AfterDelete, Wipe, NewLogin, In, IsVerifying, LoginPC
<1>6. CASE Update(r) \/ Exists(r) \/ Insert(r) \/ SendGet(r) \/ Burn(r)
    BY <1>2, <1>3, <1>6 DEF Update, Exists, Insert, SendGet, Burn, In, IsVerifying, LoginPC
<1>7. CASE DeleteGet(r) \/ Members(r) \/ Auth(r) \/ Fetch(r)
    <2>1. ~IsVerifying(r)
        BY <1>7 DEF DeleteGet, Members, Auth, Fetch, In, IsVerifying
    <2> QED
        BY <1>1, <1>3, <1>7, <2>1, TakesPC DEF CodeStep
<1> QED
    BY <1>4, <1>5, <1>6, <1>7 DEF RequestStep, CodeStep

LEMMA CodeStepCounts ==
    ASSUME CodeInv, NEW r \in Slots, CodeStep(r)
    PROVE  AttemptsCounted'
<1>1. /\ Inv /\ AttemptsCounted /\ LoginTypeOK
      /\ reqs \in [Slots -> LoginRequest] /\ reqs[r] \in LoginRequest
      /\ HasAttempt(reqs[r])
      /\ Moves(r)
    BY RequestMoves DEF CodeInv, Inv, LoginTypeOK, RequestInv, CodeStep, RequestStep
<1>2. /\ code \in Code /\ reqs[r].read \in Code
      /\ code.attempts \in 0..3 /\ reqs[r].read.attempts \in 0..3
      /\ tried \in Nat /\ accepted \in Nat
    BY <1>1 DEF LoginTypeOK, LoginRequest, Code
<1>3. \A q \in Slots \ {r} : (IsVerifying(q)' <=> IsVerifying(q)) /\ reqs'[q] = reqs[q]
    BY <1>1 DEF Moves, IsVerifying
<1>4. Answered(r) => ~IsVerifying(r)'
    BY <1>1, AnsweredType, NoRequestType DEF IsVerifying
<1>5. CASE SendSet(r)
    <2>1. /\ code' = [stored |-> TRUE, attempts |-> 0] /\ tried' = 0 /\ accepted' = 0
          /\ Answered(r) /\ ~IsVerifying(r)
          /\ ~uncounted' => ~ \E q \in Slots \ {r} : IsVerifying(q)
        BY <1>5 DEF SendSet, Verifying, In, IsVerifying
    <2>2. ~uncounted' => \A q \in Slots : ~IsVerifying(q)'
        BY <1>3, <1>4, <2>1
    <2> QED
        BY <2>1, <2>2 DEF AttemptsCounted
<1>6. CASE Verify(r)
    <2>1. ~IsVerifying(r) /\ accepted' = accepted
        BY <1>6 DEF Verify, In, IsVerifying
    <2>2. ASSUME ~code.stored \/ code.attempts >= 3
          PROVE  AttemptsCounted'
        <3>1. /\ code' = code /\ (Answered(r) \/ To(r, "burn"))
              /\ UNCHANGED <<tried, accepted>> /\ (uncounted => uncounted')
            BY <1>6, <2>2 DEF Verify
        <3>a. To(r, "burn") => ~IsVerifying(r)'
            BY <1>1 DEF To, LoginRequest, IsVerifying
        <3>2. \A q \in Slots : /\ IsVerifying(q)' <=> IsVerifying(q)
                               /\ IsVerifying(q) => reqs'[q].read = reqs[q].read
            BY <1>3, <1>4, <2>1, <3>1, <3>a
        <3> QED
            BY <1>1, <3>1, <3>2, OtherKeepsCount
    <2>3. ASSUME code.stored, ~(code.attempts >= 3)
          PROVE  AttemptsCounted'
        <3>1. /\ reqs'[r].read = code /\ tried' = tried + 1 /\ code' = code
              /\ IsVerifying(r)'
              /\ uncounted' = (uncounted \/ Verifying(r))
            BY <1>1, <1>6, <2>3 DEF Verify, LoginRequest, IsVerifying
        <3>2. ~uncounted' => /\ ~uncounted
                             /\ \A q \in Slots : ~IsVerifying(q)
                             /\ \A q \in Slots : IsVerifying(q)' => q = r
            BY <1>3, <2>1, <3>1 DEF Verifying, IsVerifying
        <3>3. ~uncounted' => tried = code.attempts /\ accepted = 0
            BY <1>1, <2>3, <3>2 DEF AttemptsCounted
        <3> QED
            BY <1>2, <2>1, <2>3, <3>1, <3>2, <3>3 DEF AttemptsCounted
    <2> QED
        BY <2>2, <2>3
<1>7. CASE Wrong(r)
    <2>1. /\ IsVerifying(r) /\ Answered(r) /\ UNCHANGED <<tried, accepted>>
          /\ \/ /\ code' = Counted(reqs[r].read) /\ UNCHANGED uncounted
             \/ /\ uncounted' = (uncounted \/ code.stored) /\ UNCHANGED code
        BY <1>7 DEF Wrong, In, IsVerifying
    <2>2. SUFFICES ASSUME ~uncounted' PROVE AttemptsCounted'
        BY DEF AttemptsCounted
    <2>3. /\ ~uncounted /\ tried <= 3 /\ accepted = 0
          /\ tried = reqs[r].read.attempts + 1
          /\ \A q \in Slots : IsVerifying(q) => q = r
        <3>1. ~uncounted
            BY <2>1, <2>2
        <3> QED
            BY <1>1, <2>1, <3>1 DEF AttemptsCounted
    <2>4. \A q \in Slots : ~IsVerifying(q)'
        BY <1>3, <1>4, <2>1, <2>3
    <2>5. code'.stored => code'.attempts = reqs[r].read.attempts + 1
        BY <1>2, <2>1, <2>2 DEF Counted, Code
    <2> QED
        BY <1>2, <2>1, <2>3, <2>4, <2>5 DEF AttemptsCounted
<1>8. CASE Right(r)
    <2>1. /\ IsVerifying(r) /\ UNCHANGED <<tried, uncounted>>
          /\ code' = NoCode /\ accepted' = accepted + 1
        BY <1>8 DEF Right, In, IsVerifying
    <2>2. ~IsVerifying(r)'
        BY <1>1, <1>4, <1>8, TakesPC DEF IsVerifying, Right, Verify, In
    <2>3. SUFFICES ASSUME ~uncounted' PROVE AttemptsCounted'
        BY DEF AttemptsCounted
    <2>4. /\ tried <= 3 /\ accepted = 0
          /\ \A q \in Slots : IsVerifying(q) => q = r
        BY <1>1, <2>1, <2>3 DEF AttemptsCounted
    <2>5. \A q \in Slots : ~IsVerifying(q)'
        BY <1>3, <2>2, <2>4
    <2> QED
        BY <1>2, <2>1, <2>4, <2>5 DEF AttemptsCounted, NoCode
<1> QED
    BY <1>5, <1>6, <1>7, <1>8 DEF CodeStep

LEMMA CodeInvStep == CodeInv /\ [LoginNext]_loginVars => CodeInv'
<1> SUFFICES ASSUME CodeInv, [LoginNext]_loginVars PROVE CodeInv'
    OBVIOUS
<1>1. Inv /\ AttemptsCounted /\ Inv'
    BY InvStep DEF CodeInv
<1>2. CASE UNCHANGED loginVars
    BY <1>1, <1>2, OtherKeepsCount DEF loginVars, sessions, codes, IsVerifying, CodeInv
<1>3. CASE CodeExpires \/ \E sid \in Sids : Expire(sid)
    BY <1>1, <1>3, OtherKeepsCount DEF CodeExpires, Expire, codes, IsVerifying, CodeInv
<1>4. ASSUME NEW r \in Slots, NEW op \in LoginOps, Begin(r, op)
      PROVE  AttemptsCounted'
    <2>1. ~IsVerifying(r) /\ UNCHANGED codes
        BY <1>4 DEF Begin, In, IsVerifying
    <2>2. FirstPC(op) \notin {"wrong", "right"}
        BY DEF FirstPC, LoginOps, AuthOps, RefreshOps, AdminOps, CodeOps, OtherOps
    <2>3. ~IsVerifying(r)' /\ \A q \in Slots \ {r} : reqs'[q] = reqs[q]
        BY <1>1, <1>4, <2>2, NoRequestType
        DEF Begin, IsVerifying, Inv, LoginTypeOK, LoginRequest
    <2> QED
        BY <1>1, <2>1, <2>3, OtherKeepsCount DEF codes, IsVerifying
<1>5. ASSUME NEW r \in Slots, RequestStep(r), ~CodeStep(r)
      PROVE  AttemptsCounted'
    <2>1. UNCHANGED <<tried, accepted, uncounted>> /\ code' \in {code, NoCode}
        BY <1>5
        DEF RequestStep, CodeStep, KeepRest, codes, Resolve, Refresh, TouchGet, TouchSet, Load,
            Perform, DeleteGet, Delete, Srem, Members, Wipe, NewLogin, Auth, Fetch, Update,
            Exists, Insert, SendGet, Burn
    <2>2. \A q \in Slots \ {r} : reqs'[q] = reqs[q]
        BY <1>1, <1>5, RequestMoves DEF Moves
    <2> QED
        BY <1>1, <1>5, <2>1, <2>2, OtherPC, OtherKeepsCount DEF IsVerifying
<1> QED
    BY <1>1, <1>2, <1>3, <1>4, <1>5, CodeStepCounts DEF CodeInv, LoginNext

\* verify_code compares a code at most three times and accepts it once, if its
\* verifications overlap neither with one another nor with its sending, and it has a
\* second left for their writes: for any number of requests at once, and whatever the
\* verifications of the codes before it did. Those that do overlap are not bounded.
THEOREM ThreeAttempts == LoginSpec => []CodeLimit
<1>1. LoginInit => CodeInv
    <2>1. ASSUME LoginInit
          PROVE  /\ tried = 0 /\ accepted = 0 /\ ~code.stored
                 /\ \A r \in Slots : ~IsVerifying(r)
        BY <2>1, NoRequestType DEF LoginInit, IsVerifying, NoCode
    <2> QED
        BY <2>1, InvInit DEF CodeInv, AttemptsCounted
<1>2. CodeInv => CodeLimit
    BY DEF CodeInv, AttemptsCounted, CodeLimit
<1> QED
    BY <1>1, <1>2, CodeInvStep, PTL DEF LoginSpec
=============================================================================
