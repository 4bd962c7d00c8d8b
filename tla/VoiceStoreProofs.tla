-------------------------- MODULE VoiceStoreProofs --------------------------
(***************************************************************************)
(* Theorems about VoiceStore, for every set of threads, names and voices   *)
(* and every schedule of builds, promotions, installations, imports,       *)
(* deletions, failures and crashes.                                        *)
(***************************************************************************)
EXTENDS VoiceStore, TLAPS

\* What a request knows between its steps: who it is and where it works; that a build holds
\* the gate and that what it has checked is finished; that a promotion nobody disturbed still
\* finds, at its index, the clip it took.
Rebuilding == {"identify", "rebuild"}
RequestInv(t) ==
  LET me == thread[t] IN
  /\ me.pc # "idle" => me.name \in Names
  /\ me.pc = "work" => me.kind = "build"
  /\ me.kind = "build" => me.pc \in Writing \cup {"work"} /\ me.dir = "library" /\ gate = t
  /\ me.pc \in Writing => me.kind = "build" \/ (me.kind = "promote" /\ me.dir = "modelrig")
  /\ me.pc \in Rebuilding \cup {"extract"} =>
       me.kind = "promote" /\ me.dir = "modelrig" /\ me.index \in Asked
  /\ me.kind = "promote" => me.pc \in Writing \cup Rebuilding \cup {"extract"}
  /\ me.pc \in Rebuilding => me.from \in References
  /\ me.pc = "rebuild" => me.voice \in Voices
  /\ me.pc \in {"clear", "open", "fill", "check", "swap", "place", "shelve"} => me.pkg # NoPackage
  /\ me.pc = "shelve" => Conditioned(me.pkg)
  /\ me.kind = "build" /\ me.pc \in Writing \ {"cleanup"} => Conditioned(me.pkg)
  /\ me.kind = "build" /\ me.pc = "swap" =>
       LET f == temp["library"][me.name] IN Exists(f) => Whole(f)
  /\ me.pc \in Rebuilding /\ me.steady =>
       LET refs == shelf["modelrig"][me.name].pkg.refs IN
       me.index <= Len(refs) /\ refs[me.index] = me.from
  /\ me.kind = "promote" /\ me.pc \in Writing \ {"cleanup"} /\ me.steady => Conditioned(me.pkg)

\* What a build writes beside its place was conditioned from its own primary reference.
LibraryTempsInv ==
  \A n \in Names : Exists(temp["library"][n]) => Conditioned(temp["library"][n].pkg)

\* A name about to be made the default is installed.
MarkedInv ==
  \A n \in Names : BeingMarked(n) => Exists(shelf["modelrig"][n]) \/ n \in torn

StoreInv ==
  /\ TypeOK
  /\ \A t \in Threads : RequestInv(t)
  /\ LibraryTempsInv /\ LibraryIsSound
  /\ MarkedInv /\ DefaultIsInstalled

-----------------------------------------------------------------------------
(* Packages *)

\* A package as it was built or imported.
LEMMA FreshPackage ==
  ASSUME NEW v \in Voices
  PROVE  Fresh(v) \in Packages /\ Conditioned(Fresh(v)) /\ Fresh(v) # NoPackage
<1>1. RefsOf[v] \in Seq(References) /\ RefsOf[v] # <<>>
  BY StoreAssumption
<1>2. Len(RefsOf[v]) \in Nat \ {0} /\ RefsOf[v][1] \in References
  BY <1>1
<1>3. Fresh(v) \in Packages
  BY <1>1, <1>2 DEF Fresh, Packages
<1>4. Fresh(v).refs # NoPackage.refs
  BY <1>1 DEF Fresh, NoPackage
<1>5. Conditioned(Fresh(v))
  BY DEF Conditioned, Fresh
<1> QED
  BY <1>3, <1>4, <1>5

\* A package always has references, so it is never taken for no package.
LEMMA PackageExists ==
  ASSUME NEW p \in Packages
  PROVE  p # NoPackage /\ p.refs \in Seq(References) /\ Len(p.refs) \in Nat \ {0}
<1>1. p.refs \in Seq(References) /\ p.refs # <<>>
  BY DEF Packages
<1>2. Len(p.refs) \in Nat \ {0}
  BY <1>1
<1> QED
  BY <1>1, <1>2 DEF NoPackage

\* An index that was asked for and fits leads to a reference.
LEMMA AskedReference ==
  ASSUME NEW p \in Packages, NEW i \in Asked, i <= Len(p.refs)
  PROVE  i \in 1..Len(p.refs) /\ p.refs[i] \in References
<1>1. i \in Nat \ {0}
  BY StoreAssumption
<1>2. p.refs \in Seq(References) /\ Len(p.refs) \in Nat
  BY PackageExists
<1>3. i \in 1..Len(p.refs)
  BY <1>1, <1>2
<1> QED
  BY <1>2, <1>3

\* rebuild_package_for_engine returns a package of the same voice whose primary reference is
\* the one that was stored under the index.
LEMMA PromotedPackage ==
  ASSUME NEW p \in Packages, NEW i \in 1..Len(p.refs), NEW ref \in References
  PROVE  /\ Promoted(p, i, ref) \in Packages
         /\ p.refs[i] = ref => Conditioned(Promoted(p, i, ref))
<1> DEFINE q == Promoted(p, i, ref)
<1>1. p.refs \in Seq(References) /\ Len(p.refs) \in Nat \ {0}
  BY PackageExists
<1>2. \A j \in 1..Len(p.refs) : p.refs[j] \in References
  BY <1>1
<1>3. q.refs \in [1..Len(p.refs) -> References]
  BY <1>1, <1>2 DEF Promoted
<1>4. q.refs \in Seq(References) /\ Len(q.refs) = Len(p.refs)
  BY <1>1, <1>3
<1>5. q \in Packages
  <2>1. q.refs # <<>>
    BY <1>1, <1>4
  <2>2. q.voice \in Voices /\ q.cond \in References
    BY DEF Promoted, Packages
  <2> QED
    BY <1>4, <2>1, <2>2 DEF Promoted, Packages
<1>6. q.refs[1] = p.refs[i] /\ q.cond = ref
  BY <1>1 DEF Promoted
<1> QED
  BY <1>5, <1>6 DEF Conditioned
-----------------------------------------------------------------------------
(* What a step of one request leaves alone *)

\* Another request keeps its invariant, as long as it keeps the gate, nobody spoils the
\* library's temporary files while it builds, and a package replaced under a promotion makes
\* the promotion unsteady.
LEMMA OthersKeep ==
  ASSUME StoreInv, NEW u \in Threads,
         thread'[u] = thread[u] \/ thread'[u] = [thread[u] EXCEPT !.steady = FALSE],
         gate = u => gate' = u,
         gate = u => \A n \in Names :
           (Exists(temp["library"][n]) => Whole(temp["library"][n]))
             => (Exists(temp'["library"][n]) => Whole(temp'["library"][n])),
         thread[u].pc \in Rebuilding /\ thread'[u].steady =>
           shelf'["modelrig"][thread[u].name].pkg = shelf["modelrig"][thread[u].name].pkg
  PROVE  RequestInv(u)'
<1>1. RequestInv(u) /\ thread[u] \in Requests
  BY DEF StoreInv, TypeOK
<1>2. /\ thread'[u].pc = thread[u].pc /\ thread'[u].kind = thread[u].kind
      /\ thread'[u].dir = thread[u].dir /\ thread'[u].name = thread[u].name
      /\ thread'[u].pkg = thread[u].pkg /\ thread'[u].index = thread[u].index
      /\ thread'[u].from = thread[u].from /\ thread'[u].voice = thread[u].voice
      /\ thread'[u].steady => thread[u].steady
  BY <1>1 DEF Requests
<1>3. thread[u].pc \in Rebuilding /\ thread'[u].steady =>
        LET refs == shelf'["modelrig"][thread[u].name].pkg.refs IN
        thread[u].index <= Len(refs) /\ refs[thread[u].index] = thread[u].from
  BY <1>1, <1>2 DEF RequestInv
<1>4. thread[u].kind = "build" /\ thread[u].pc = "swap" =>
        LET f == temp'["library"][thread[u].name] IN Exists(f) => Whole(f)
  <2>1. thread[u].kind = "build" => gate = u
    BY <1>1 DEF RequestInv
  <2>2. thread[u].kind = "build" /\ thread[u].pc = "swap" =>
          LET f == temp["library"][thread[u].name] IN Exists(f) => Whole(f)
    BY <1>1 DEF RequestInv
  <2>3. thread[u].pc = "swap" => thread[u].name \in Names
    BY <1>1 DEF RequestInv
  <2> QED
    BY <2>1, <2>2, <2>3
<1> QED
  BY <1>1, <1>2, <1>3, <1>4 DEF RequestInv

\* A step that touches no file.
LEMMA QuietStep ==
  ASSUME StoreInv, NEW t \in Threads, NEW r \in Requests,
         thread' = [thread EXCEPT ![t] = r], UNCHANGED <<files, torn>>,
         gate' = gate \/ (gate = Nobody /\ gate' = t),
         RequestInv(t)', r.pc \notin {"mark", "commit"},
         Deleting(t) /\ thread[t].name = default => r.pc = "unmark" /\ r.name = default
  PROVE  StoreInv'
<1> USE StoreAssumption
<1>1. TypeOK'
  BY DEF StoreInv, TypeOK, files
<1>2. \A u \in Threads \ {t} : thread'[u] = thread[u]
  BY DEF StoreInv, TypeOK
<1>3. \A u \in Threads : RequestInv(u)'
  <2>1. ASSUME NEW u \in Threads \ {t} PROVE RequestInv(u)'
    BY <1>2, OthersKeep DEF files
  <2> QED
    BY <2>1
<1>4. LibraryTempsInv' /\ LibraryIsSound'
  BY DEF StoreInv, LibraryTempsInv, LibraryIsSound, files, Exists, Whole
<1>5. MarkedInv'
  <2>1. \A n \in Names : BeingMarked(n)' => BeingMarked(n)
    BY <1>2 DEF BeingMarked, files, StoreInv, TypeOK
  <2> QED
    BY <2>1 DEF StoreInv, MarkedInv, files, Exists
<1>6. DefaultIsInstalled'
  <2>1. ASSUME NEW u \in Threads, thread[u].name = default, Deleting(u)
        PROVE  thread'[u].name = default /\ Deleting(u)'
    BY <2>1, <1>2 DEF Deleting, StoreInv, TypeOK
  <2> QED
    BY <2>1 DEF StoreInv, DefaultIsInstalled, files, Exists
<1> QED
  BY <1>1, <1>3, <1>4, <1>5, <1>6 DEF StoreInv
-----------------------------------------------------------------------------
(* Steps that touch no file *)

LEMMA IdleRequest ==
  /\ Idle \in Requests /\ Idle.pc = "idle"
  /\ \A d \in Dirs, n \in Names : Installing(d, n) \in Requests
<1>1. 0 \in Asked \cup {0}
  BY StoreAssumption
<1> QED
  BY <1>1 DEF Idle, Requests, Pcs, Kinds, Dirs, Installing

\* A request that is over, or has not begun, has nothing to keep.
LEMMA EndKeeps ==
  ASSUME StoreInv, NEW t \in Threads, End(t), UNCHANGED <<files, torn>>,
         gate' = gate, Deleting(t) => default # thread[t].name
  PROVE  StoreInv'
<1>1. thread'[t] = Idle
  BY DEF StoreInv, TypeOK, End
<1>2. RequestInv(t)'
  BY <1>1 DEF RequestInv, Rebuilding, Idle, Writing
<1> QED
  BY <1>2, IdleRequest, QuietStep DEF End

LEMMA BeginKeeps ==
  ASSUME StoreInv, NEW t \in Threads,
         \/ \E n \in Names : BeginBuild(t, n) \/ BeginInstall(t, n) \/ BeginDelete(t, n)
         \/ \E n \in Names, i \in Asked : BeginPromote(t, n, i)
  PROVE  StoreInv'
<1> USE StoreAssumption, IdleRequest
<1>1. ASSUME NEW n \in Names, BeginBuild(t, n) PROVE StoreInv'
  <2> DEFINE r == [Idle EXCEPT !.pc = "work", !.kind = "build", !.name = n]
  <2>1. r \in Requests
    BY DEF Idle, Requests, Pcs, Kinds, Dirs
  <2>2. thread'[t] = r /\ gate' = t
    BY <1>1 DEF StoreInv, TypeOK, BeginBuild
  <2>3. RequestInv(t)'
    BY <2>2 DEF RequestInv, Rebuilding, Idle, Writing
  <2> QED
    BY <1>1, <2>1, <2>3, QuietStep DEF BeginBuild, Idle, Deleting
<1>2. ASSUME NEW n \in Names, BeginInstall(t, n) PROVE StoreInv'
  <2>1. PICK d \in Dirs : thread' = [thread EXCEPT ![t] = Installing(d, n)]
    BY <1>2 DEF BeginInstall, Dirs
  <2>2. thread'[t] = Installing(d, n)
    BY <2>1 DEF StoreInv, TypeOK
  <2>3. RequestInv(t)'
    BY <2>2 DEF RequestInv, Rebuilding, Idle, Writing, Installing
  <2> QED
    BY <1>2, <2>1, <2>3, QuietStep DEF BeginInstall, Installing, Idle, Deleting
<1>3. ASSUME NEW n \in Names, BeginDelete(t, n) PROVE StoreInv'
  <2> DEFINE r == [Idle EXCEPT !.pc = "unlink", !.kind = "delete", !.name = n]
  <2>1. r \in Requests
    BY DEF Idle, Requests, Pcs, Kinds, Dirs
  <2>2. thread'[t] = r
    BY <1>3 DEF StoreInv, TypeOK, BeginDelete
  <2>3. RequestInv(t)'
    BY <2>2 DEF RequestInv, Rebuilding, Idle, Writing
  <2> QED
    BY <1>3, <2>1, <2>3, QuietStep DEF BeginDelete, Idle, Deleting
<1>4. ASSUME NEW n \in Names, NEW i \in Asked, BeginPromote(t, n, i) PROVE StoreInv'
  <2> DEFINE r == [Idle EXCEPT !.pc = "extract", !.kind = "promote", !.dir = "modelrig",
                               !.name = n, !.index = i]
  <2>1. r \in Requests
    <3>1. i \in Asked \cup {0}
      OBVIOUS
    <3> QED
      BY <3>1 DEF Idle, Requests, Pcs, Kinds, Dirs
  <2>2. thread'[t] = r
    BY <1>4 DEF StoreInv, TypeOK, BeginPromote
  <2>3. RequestInv(t)'
    BY <2>2 DEF RequestInv, Rebuilding, Idle, Writing
  <2> QED
    BY <1>4, <2>1, <2>3, QuietStep DEF BeginPromote, Idle, Deleting
<1> QED
  BY <1>1, <1>2, <1>3, <1>4

LEMMA BeginImportKeeps ==
  ASSUME StoreInv, NEW t \in Threads, NEW n \in Names, NEW v \in Voices, BeginImport(t, n, v)
  PROVE  StoreInv'
<1>1. PICK target \in Names : thread' = [thread EXCEPT ![t] =
        [Idle EXCEPT !.pc = "shelve", !.kind = "import", !.name = target, !.pkg = Fresh(v)]]
  BY StoreAssumption DEF BeginImport
<1> DEFINE r == [Idle EXCEPT !.pc = "shelve", !.kind = "import", !.name = target,
                             !.pkg = Fresh(v)]
<1>2. r \in Requests
  BY IdleRequest, FreshPackage DEF Idle, Requests, Pcs, Kinds, Dirs
<1>3. thread'[t] = r
  BY <1>1 DEF StoreInv, TypeOK
<1>4. RequestInv(t)'
  BY <1>3, FreshPackage DEF RequestInv, Rebuilding, Idle, Writing
<1> QED
  BY <1>1, <1>2, <1>4, QuietStep DEF BeginImport, Idle, Deleting

LEMMA ArtifactsKeeps ==
  ASSUME StoreInv, NEW t \in Threads, NEW v \in Voices, Artifacts(t, v)
  PROVE  StoreInv'
<1> DEFINE r == [thread[t] EXCEPT !.pc = "clear", !.pkg = Fresh(v)]
<1>1. thread[t] \in Requests /\ RequestInv(t) /\ thread[t].pc = "work"
  BY DEF StoreInv, TypeOK, Artifacts
<1>2. r \in Requests
  BY <1>1, FreshPackage DEF Requests, Pcs, Writing
<1>3. thread' = [thread EXCEPT ![t] = r] /\ thread'[t] = r
  BY DEF StoreInv, TypeOK, Artifacts
<1>4. RequestInv(t)'
  BY <1>1, <1>3, FreshPackage DEF RequestInv, Rebuilding, Requests, Writing, Artifacts
<1> QED
  BY <1>1, <1>2, <1>3, <1>4, QuietStep DEF Artifacts, Deleting, Requests

LEMMA CheckKeeps ==
  ASSUME StoreInv, NEW t \in Threads, Check(t)
  PROVE  StoreInv'
<1>1. thread[t] \in Requests /\ RequestInv(t) /\ thread[t].pc = "check"
  BY DEF StoreInv, TypeOK, Check
<1>2. CASE Whole(temp[thread[t].dir][thread[t].name])
  <2> DEFINE r == [thread[t] EXCEPT !.pc = "swap"]
  <2>1. r \in Requests
    BY <1>1 DEF Requests, Pcs, Writing
  <2>2. thread' = [thread EXCEPT ![t] = r] /\ thread'[t] = r
    BY <1>2 DEF StoreInv, TypeOK, Check, Goto
  <2>3. RequestInv(t)'
    BY <1>1, <1>2, <2>2 DEF RequestInv, Rebuilding, Requests, Writing, Check, files, Whole, Exists
  <2> QED
    BY <1>1, <2>1, <2>2, <2>3, QuietStep DEF Check, Deleting, Requests
<1>3. CASE ~Whole(temp[thread[t].dir][thread[t].name])
  <2> DEFINE r == [thread[t] EXCEPT !.pc = "cleanup", !.ok = FALSE]
  <2>1. r \in Requests
    BY <1>1 DEF Requests, Pcs, Writing
  <2>2. thread' = [thread EXCEPT ![t] = r] /\ thread'[t] = r
    BY <1>3 DEF StoreInv, TypeOK, Check
  <2>3. RequestInv(t)'
    BY <1>1, <2>2 DEF RequestInv, Rebuilding, Requests, Writing, Check
  <2> QED
    BY <1>1, <2>1, <2>2, <2>3, QuietStep DEF Check, Deleting, Requests
<1> QED
  BY <1>2, <1>3

LEMMA ExtractKeeps ==
  ASSUME StoreInv, NEW t \in Threads, Extract(t)
  PROVE  StoreInv'
<1> DEFINE f == shelf["modelrig"][thread[t].name]
           fits == Whole(f) /\ thread[t].index <= Len(f.pkg.refs)
           r == [thread[t] EXCEPT !.pc = "identify", !.from = f.pkg.refs[thread[t].index],
                                  !.steady = TRUE]
<1>1. /\ thread[t] \in Requests /\ RequestInv(t) /\ thread[t].pc = "extract"
      /\ thread[t].name \in Names /\ thread[t].index \in Asked
  BY DEF StoreInv, TypeOK, Extract, RequestInv
<1>2. CASE fits
  <2>1. f.pkg \in Packages
    BY <1>1, <1>2 DEF StoreInv, TypeOK, FilesOf, Dirs, Whole, Exists, NoFile, File
  <2>2. f.pkg.refs[thread[t].index] \in References
    BY <1>1, <1>2, <2>1, AskedReference
  <2>3. r \in Requests
    BY <1>1, <2>2 DEF Requests, Pcs
  <2>4. thread' = [thread EXCEPT ![t] = r] /\ thread'[t] = r
    BY <1>2 DEF StoreInv, TypeOK, Extract
  <2>5. RequestInv(t)'
    <3>1. /\ r.pc = "identify" /\ r.kind = "promote" /\ r.dir = "modelrig"
          /\ r.name = thread[t].name /\ r.index = thread[t].index
          /\ r.from = f.pkg.refs[r.index]
      BY <1>1 DEF RequestInv, Requests
    <3>2. shelf' = shelf
      BY DEF Extract, files
    <3> QED
      BY <1>1, <1>2, <2>2, <2>4, <3>1, <3>2 DEF RequestInv, Rebuilding, Writing
  <2> QED
    BY <1>1, <2>3, <2>4, <2>5, QuietStep DEF Extract, Deleting, Requests
<1>3. CASE ~fits
  BY <1>1, <1>3, EndKeeps DEF Extract, Deleting
<1> QED
  BY <1>2, <1>3

LEMMA IdentifyKeeps ==
  ASSUME StoreInv, NEW t \in Threads, Identify(t)
  PROVE  StoreInv'
<1> DEFINE f == shelf["modelrig"][thread[t].name]
           r == [thread[t] EXCEPT !.pc = "rebuild", !.voice = f.pkg.voice]
<1>1. /\ thread[t] \in Requests /\ RequestInv(t) /\ thread[t].pc = "identify"
      /\ thread[t].name \in Names
  BY DEF StoreInv, TypeOK, Identify, RequestInv
<1>2. CASE Whole(f)
  <2>1. f.pkg \in Packages
    BY <1>1, <1>2 DEF StoreInv, TypeOK, FilesOf, Dirs, Whole, Exists, NoFile, File
  <2>2. r \in Requests /\ f.pkg.voice \in Voices
    BY <1>1, <2>1 DEF Requests, Pcs, Packages
  <2>3. thread' = [thread EXCEPT ![t] = r] /\ thread'[t] = r
    BY <1>2 DEF StoreInv, TypeOK, Identify
  <2>4. RequestInv(t)'
    <3>1. /\ r.pc = "rebuild" /\ r.kind = thread[t].kind /\ r.dir = thread[t].dir
          /\ r.name = thread[t].name /\ r.index = thread[t].index
          /\ r.from = thread[t].from /\ r.steady = thread[t].steady /\ r.voice = f.pkg.voice
      BY <1>1 DEF Requests
    <3>2. shelf' = shelf
      BY DEF Identify, files
    <3> QED
      BY <1>1, <2>2, <2>3, <3>1, <3>2 DEF RequestInv, Rebuilding, Writing
  <2> QED
    BY <1>1, <2>2, <2>3, <2>4, QuietStep DEF Identify, Deleting, Requests
<1>3. CASE ~Whole(f)
  BY <1>1, <1>3, EndKeeps DEF Identify, Deleting
<1> QED
  BY <1>2, <1>3

LEMMA RebuildKeeps ==
  ASSUME StoreInv, NEW t \in Threads, Rebuild(t)
  PROVE  StoreInv'
<1> DEFINE f == shelf["modelrig"][thread[t].name]
           fits == Whole(f) /\ thread[t].index <= Len(f.pkg.refs)
           source == [f.pkg EXCEPT !.voice = thread[t].voice]
           p == Promoted(source, thread[t].index, thread[t].from)
           r == [thread[t] EXCEPT !.pc = "clear", !.index = 0, !.from = None, !.voice = None,
                                  !.pkg = p]
<1>1. /\ thread[t] \in Requests /\ RequestInv(t) /\ thread[t].pc = "rebuild"
      /\ thread[t].name \in Names /\ thread[t].index \in Asked
      /\ thread[t].from \in References /\ thread[t].voice \in Voices
  BY DEF StoreInv, TypeOK, Rebuild, RequestInv, Rebuilding
<1>2. CASE fits
  <2>1. f.pkg \in Packages
    BY <1>1, <1>2 DEF StoreInv, TypeOK, FilesOf, Dirs, Whole, Exists, NoFile, File
  <2>2. source \in Packages /\ source.refs = f.pkg.refs
    BY <1>1, <2>1 DEF Packages
  <2> HIDE DEF source
  <2>9. thread[t].index \in 1..Len(source.refs)
    BY <1>1, <1>2, <2>1, <2>2, AskedReference
  <2>3. p \in Packages /\ (f.pkg.refs[thread[t].index] = thread[t].from => Conditioned(p))
    BY <1>1, <2>2, <2>9, PromotedPackage
  <2>4. p # NoPackage
    BY <2>3, PackageExists
  <2>5. thread' = [thread EXCEPT ![t] = r] /\ thread'[t] = r
    BY <1>2 DEF StoreInv, TypeOK, Rebuild, source
  <2> HIDE DEF p
  <2>6. r \in Requests
    <3>1. 0 \in Asked \cup {0}
      BY StoreAssumption
    <3> QED
      BY <1>1, <2>3, <3>1 DEF Requests, Pcs, Writing
  <2>7. RequestInv(t)'
    <3>1. thread[t].steady => Conditioned(p)
      BY <1>1, <2>3 DEF RequestInv, Rebuilding
    <3>2. thread[t].kind = "promote" /\ thread[t].dir = "modelrig"
      BY <1>1 DEF RequestInv, Rebuilding
    <3>3. /\ r.pc = "clear" /\ r.pkg = p /\ r.kind = thread[t].kind
          /\ r.dir = thread[t].dir /\ r.name = thread[t].name
      BY <1>1 DEF Requests
    <3>4. thread'[t].steady => thread[t].steady
      BY <1>1, <2>5 DEF Requests
    <3> QED
      BY <1>1, <2>4, <2>5, <3>1, <3>2, <3>3, <3>4 DEF RequestInv, Rebuilding, Writing
  <2> QED
    BY <1>1, <2>5, <2>6, <2>7, QuietStep DEF Rebuild, Deleting, Requests
<1>3. CASE ~fits
  BY <1>1, <1>3, EndKeeps DEF Rebuild, Deleting
<1> QED
  BY <1>2, <1>3

LEMMA CopyKeeps ==
  ASSUME StoreInv, NEW t \in Threads, Copy(t)
  PROVE  StoreInv'
<1> DEFINE f == shelf[thread[t].dir][thread[t].name]
           r == [thread[t] EXCEPT !.pc = "place", !.pkg = f.pkg, !.ok = Whole(f)]
<1>1. /\ thread[t] \in Requests /\ RequestInv(t) /\ thread[t].pc = "copy"
      /\ thread[t].name \in Names /\ thread[t].dir \in Dirs
  BY DEF StoreInv, TypeOK, Copy, RequestInv, Requests
<1>2. CASE Exists(f)
  <2>1. f.pkg \in Packages
    BY <1>1, <1>2 DEF StoreInv, TypeOK, FilesOf, Exists, NoFile, File
  <2>2. r \in Requests
    BY <1>1, <2>1 DEF Requests, Pcs, Whole
  <2>3. thread' = [thread EXCEPT ![t] = r] /\ thread'[t] = r
    BY <1>2 DEF StoreInv, TypeOK, Copy
  <2>4. RequestInv(t)'
    BY <1>1, <1>2, <2>3 DEF RequestInv, Rebuilding, Requests, Writing, Exists
  <2> QED
    BY <1>1, <2>2, <2>3, <2>4, QuietStep DEF Copy, Deleting, Requests
<1>3. CASE ~Exists(f)
  BY <1>1, <1>3, EndKeeps DEF Copy, Deleting
<1> QED
  BY <1>2, <1>3

LEMMA CompareKeeps ==
  ASSUME StoreInv, NEW t \in Threads, Compare(t)
  PROVE  StoreInv'
<1> DEFINE r == [thread[t] EXCEPT !.pc = "unmark"]
<1>1. thread[t] \in Requests /\ RequestInv(t) /\ thread[t].pc = "compare"
  BY DEF StoreInv, TypeOK, Compare
<1>2. CASE default = thread[t].name
  <2>1. r \in Requests
    BY <1>1 DEF Requests, Pcs
  <2>2. thread' = [thread EXCEPT ![t] = r] /\ thread'[t] = r
    BY <1>2 DEF StoreInv, TypeOK, Compare, Goto
  <2>3. RequestInv(t)'
    BY <1>1, <2>2 DEF RequestInv, Rebuilding, Requests, Writing
  <2> QED
    BY <1>1, <1>2, <2>1, <2>2, <2>3, QuietStep DEF Compare, Requests
<1>3. CASE default # thread[t].name
  BY <1>3, EndKeeps DEF Compare
<1> QED
  BY <1>2, <1>3
-----------------------------------------------------------------------------
(* Steps that write, move or remove a file *)

\* The default stays installed through every step that removes nothing from ModelRig's
\* directory, marks nothing and finishes no deletion of the default.
LEMMA MarkersKeep ==
  ASSUME StoreInv, NEW t \in Threads,
         \A u \in Threads \ {t} :
           thread'[u].pc = thread[u].pc /\ thread'[u].name = thread[u].name,
         thread'[t].pc \notin {"mark", "commit"}, UNCHANGED <<default, marker>>,
         torn \subseteq torn',
         \A n \in Names : Exists(shelf["modelrig"][n]) => Exists(shelf'["modelrig"][n]),
         Deleting(t) /\ thread[t].name = default => default \in torn'
  PROVE  MarkedInv' /\ DefaultIsInstalled'
<1>1. \A n \in Names : BeingMarked(n)' => BeingMarked(n)
  BY DEF BeingMarked
<1>2. MarkedInv'
  BY <1>1 DEF StoreInv, MarkedInv, Exists
<1>3. ASSUME NEW u \in Threads, thread[u].name = default, Deleting(u), default \notin torn'
      PROVE  thread'[u].name = default /\ Deleting(u)'
  BY <1>3 DEF Deleting
<1>4. DefaultIsInstalled'
  BY <1>3 DEF StoreInv, TypeOK, DefaultIsInstalled, Exists
<1> QED
  BY <1>2, <1>4

\* Where a writer of build_package stands: a build holds the gate and writes to the library, a
\* promotion writes to ModelRig's directory.
LEMMA Writer ==
  ASSUME StoreInv, NEW t \in Threads, thread[t].pc \in Writing
  PROVE  /\ thread[t] \in Requests /\ RequestInv(t)
         /\ thread[t].name \in Names /\ thread[t].dir \in Dirs
         /\ \/ thread[t].kind = "build" /\ thread[t].dir = "library" /\ gate = t
            \/ thread[t].kind = "promote" /\ thread[t].dir = "modelrig"
BY DEF StoreInv, TypeOK, RequestInv, Requests, Writing

LEMMA FileTypes ==
  /\ NoFile \in FilesOf(Packages) /\ ~Exists(NoFile) /\ ~Whole(NoFile)
  /\ \A p \in Packages, t \in Threads \cup {Nobody, Lost} :
       File(p, t) \in FilesOf(Packages) /\ Exists(File(p, t))
  /\ \A f \in FilesOf(Packages) : Exists(f) => f.pkg \in Packages
BY PackageExists DEF FilesOf, NoFile, File, Exists, Whole

\* Removing what is left of an earlier attempt.
LEMMA ClearKeeps ==
  ASSUME StoreInv, NEW t \in Threads, Clear(t)
  PROVE  StoreInv'
<1> DEFINE me == thread[t]
           r == [me EXCEPT !.pc = "open"]
<1>1. me.pc = "clear" /\ me.pc \in Writing
  BY DEF Clear, Writing
<1>2. me \in Requests /\ RequestInv(t) /\ me.name \in Names /\ me.dir \in Dirs
  BY <1>1, Writer
<1>3. /\ r \in Requests /\ r.pc = "open"
      /\ thread' = [thread EXCEPT ![t] = r] /\ thread'[t] = r
      /\ \A u \in Threads \ {t} : thread'[u] = thread[u]
  BY <1>2 DEF StoreInv, TypeOK, Clear, Goto, Requests, Pcs, Writing
<1>4. /\ temp' = [temp EXCEPT ![me.dir][me.name] = NoFile]
      /\ UNCHANGED <<shelf, default, marker, gate, torn>>
  BY DEF Clear
<1>5. TypeOK'
  BY <1>2, <1>3, <1>4, FileTypes DEF StoreInv, TypeOK
<1>6. RequestInv(t)'
  BY <1>1, <1>2, <1>3, <1>4 DEF RequestInv, Rebuilding, Requests, Writing
<1>7. \A n \in Names : \/ temp'["library"][n] = temp["library"][n]
                       \/ temp'["library"][n] = NoFile
  BY <1>2, <1>4 DEF StoreInv, TypeOK, Dirs
<1>8. ASSUME NEW u \in Threads \ {t} PROVE RequestInv(u)'
  BY <1>3, <1>4, <1>7, FileTypes, OthersKeep
<1>9. LibraryTempsInv' /\ LibraryIsSound'
  BY <1>4, <1>7, FileTypes DEF StoreInv, LibraryTempsInv, LibraryIsSound, Exists, Whole
<1>10. MarkedInv' /\ DefaultIsInstalled'
  BY <1>1, <1>3, <1>4, MarkersKeep DEF Deleting
<1> QED
  BY <1>5, <1>6, <1>8, <1>9, <1>10 DEF StoreInv

LEMMA OpenKeeps ==
  ASSUME StoreInv, NEW t \in Threads, Open(t)
  PROVE  StoreInv'
<1> DEFINE me == thread[t]
           r == [me EXCEPT !.pc = "fill"]
<1>1. me.pc = "open" /\ me.pc \in Writing
  BY DEF Open, Writing
<1>2. me \in Requests /\ RequestInv(t) /\ me.name \in Names /\ me.dir \in Dirs
  BY <1>1, Writer
<1>3. me.pkg \in Packages
  BY <1>1, <1>2 DEF RequestInv, Requests
<1>4. thread' = [thread EXCEPT ![t] = r] /\ thread'[t] = r /\ r \in Requests
  BY <1>2 DEF StoreInv, TypeOK, Open, Goto, Requests, Pcs, Writing
<1>5. PICK by \in {t, Lost} :
        /\ temp' = [temp EXCEPT ![me.dir][me.name] = File(me.pkg, by)]
        /\ UNCHANGED <<shelf, default, marker, gate, torn>>
  BY DEF Open
<1>6. TypeOK'
  BY <1>2, <1>3, <1>4, <1>5, FileTypes DEF StoreInv, TypeOK
<1>7. RequestInv(t)'
  BY <1>1, <1>2, <1>4, <1>5 DEF RequestInv, Rebuilding, Requests, Writing
<1>8. ASSUME NEW u \in Threads \ {t} PROVE RequestInv(u)'
  <2>1. thread'[u] = thread[u]
    BY <1>4 DEF StoreInv, TypeOK
  <2>2. gate = u => temp'["library"] = temp["library"]
    BY <1>1, <1>5, Writer DEF StoreInv, TypeOK, Dirs
  <2> QED
    BY <1>5, <2>1, <2>2, OthersKeep
<1>9. LibraryTempsInv'
  <2>1. me.dir = "library" => Conditioned(me.pkg)
    BY <1>1, <1>2, Writer DEF RequestInv, Writing
  <2>2. ASSUME NEW n \in Names
        PROVE  \/ temp'["library"][n] = temp["library"][n]
               \/ me.dir = "library" /\ temp'["library"][n] = File(me.pkg, by)
    BY <1>2, <1>5 DEF StoreInv, TypeOK, Dirs
  <2> QED
    BY <2>1, <2>2 DEF StoreInv, LibraryTempsInv, File, Exists
<1>10. LibraryIsSound'
  BY <1>5 DEF StoreInv, LibraryIsSound, Whole, Exists
<1>11. MarkedInv' /\ DefaultIsInstalled'
  <2>1. \A u \in Threads \ {t} : thread'[u] = thread[u]
    BY <1>4 DEF StoreInv, TypeOK
  <2>2. r.pc = "fill"
    BY <1>2 DEF Requests
  <2> QED
    BY <1>1, <1>4, <1>5, <2>1, <2>2, MarkersKeep DEF Deleting
<1> QED
  BY <1>6, <1>7, <1>8, <1>9, <1>10, <1>11 DEF StoreInv
\* Finishing or abandoning what one writes changes no package, and no file others have
\* finished.
LEMMA Relabel ==
  ASSUME StoreInv, NEW dead \in SUBSET Threads, NEW b \in {Nobody, Lost}, NEW f \in FilesOf(Packages)
  PROVE  LET g == IF f.by \in dead THEN File(f.pkg, b) ELSE f IN
         /\ g \in FilesOf(Packages) /\ g.pkg = f.pkg
         /\ Whole(f) => g = f
<1> USE StoreAssumption
<1>1. CASE f.by \in dead
  <2>1. f \in [pkg : Packages, by : Threads \cup {Nobody, Lost}]
    BY <1>1 DEF FilesOf, NoFile, File
  <2> QED
    BY <1>1, <2>1 DEF FilesOf, File, Whole
<1>2. CASE f.by \notin dead
  BY <1>2
<1> QED
  BY <1>1, <1>2

LEMMA FillKeeps ==
  ASSUME StoreInv, NEW t \in Threads, Fill(t)
  PROVE  StoreInv'
<1> DEFINE me == thread[t]
           r == [me EXCEPT !.pc = "check"]
           Done(f) == IF f.by = t THEN File(f.pkg, Nobody) ELSE f
<1>1. me.pc = "fill" /\ me.pc \in Writing
  BY DEF Fill, Writing
<1>2. me \in Requests /\ RequestInv(t) /\ me.name \in Names /\ me.dir \in Dirs
  BY <1>1, Writer
<1>3. thread' = [thread EXCEPT ![t] = r] /\ thread'[t] = r /\ r \in Requests
  BY <1>2 DEF StoreInv, TypeOK, Fill, Goto, Requests, Pcs, Writing
<1>4. /\ shelf' = [d \in Dirs |-> [n \in Names |-> Done(shelf[d][n])]]
      /\ temp' = [d \in Dirs |-> [n \in Names |-> Done(temp[d][n])]]
      /\ UNCHANGED <<default, marker, gate, torn>>
  BY DEF Fill
<1>5. ASSUME NEW f \in FilesOf(Packages)
      PROVE  Done(f) \in FilesOf(Packages) /\ Done(f).pkg = f.pkg /\ (Whole(f) => Done(f) = f)
  BY Relabel DEF Whole
<1> HIDE DEF Done
<1>6. \A d \in Dirs, n \in Names :
        shelf[d][n] \in FilesOf(Packages) /\ temp[d][n] \in FilesOf(Packages)
  BY DEF StoreInv, TypeOK
<1>7. TypeOK'
  BY <1>3, <1>4, <1>5, <1>6 DEF StoreInv, TypeOK
<1>8. /\ \A d \in Dirs, n \in Names : shelf'[d][n].pkg = shelf[d][n].pkg
      /\ \A n \in Names : Whole(shelf["library"][n]) => shelf'["library"][n] = shelf["library"][n]
      /\ \A n \in Names : temp'["library"][n].pkg = temp["library"][n].pkg
      /\ \A n \in Names : Whole(temp["library"][n]) => temp'["library"][n] = temp["library"][n]
  BY <1>4, <1>5, <1>6 DEF Dirs
<1>9. RequestInv(t)'
  BY <1>1, <1>2, <1>3, <1>4 DEF RequestInv, Rebuilding, Requests, Writing
<1>10. ASSUME NEW u \in Threads \ {t} PROVE RequestInv(u)'
  <2>1. thread'[u] = thread[u]
    BY <1>3 DEF StoreInv, TypeOK
  <2>2. thread[u].pc \in Rebuilding => thread[u].name \in Names
    BY DEF StoreInv, RequestInv, Rebuilding
  <2> QED
    BY <1>4, <1>8, <2>1, <2>2, OthersKeep DEF Exists, Dirs
<1>11. LibraryTempsInv' /\ LibraryIsSound'
  BY <1>8 DEF StoreInv, LibraryTempsInv, LibraryIsSound, Exists, Dirs
<1>12. MarkedInv' /\ DefaultIsInstalled'
  <2>1. \A u \in Threads \ {t} : thread'[u] = thread[u]
    BY <1>3 DEF StoreInv, TypeOK
  <2>2. r.pc = "check"
    BY <1>2 DEF Requests
  <2> QED
    BY <1>1, <1>3, <1>4, <1>8, <2>1, <2>2, MarkersKeep DEF Deleting, Exists, Dirs
<1> QED
  BY <1>7, <1>9, <1>10, <1>11, <1>12 DEF StoreInv

LEMMA SwapKeeps ==
  ASSUME StoreInv, NEW t \in Threads, Swap(t)
  PROVE  StoreInv'
<1> DEFINE me == thread[t]
           f == temp[me.dir][me.name]
<1>1. me.pc = "swap" /\ me.pc \in Writing
  BY DEF Swap, Writing
<1>2. me \in Requests /\ RequestInv(t) /\ me.name \in Names /\ me.dir \in Dirs
  BY <1>1, Writer
<1>3. CASE ~Exists(f)
  <2> DEFINE r == [me EXCEPT !.pc = "cleanup", !.ok = FALSE]
  <2>1. r \in Requests /\ thread' = [thread EXCEPT ![t] = r] /\ thread'[t] = r
    BY <1>2, <1>3 DEF StoreInv, TypeOK, Swap, Requests, Pcs, Writing
  <2>2. RequestInv(t)'
    BY <1>1, <1>2, <1>3, <2>1 DEF RequestInv, Rebuilding, Requests, Writing, Swap
  <2> QED
    BY <1>1, <1>2, <1>3, <2>1, <2>2, QuietStep DEF Swap, Deleting, Requests, files
<1>4. CASE Exists(f)
  <2> DEFINE others == IF me.dir = "modelrig" THEN Unsteady(me.name) ELSE thread
             r == [others[t] EXCEPT !.pc = "cleanup", !.pkg = NoPackage]
  <2>1. /\ shelf' = [shelf EXCEPT ![me.dir][me.name] = f]
        /\ temp' = [temp EXCEPT ![me.dir][me.name] = NoFile]
        /\ thread' = [others EXCEPT ![t] = r]
        /\ UNCHANGED <<default, marker, gate, torn>>
    BY <1>4 DEF Swap
  <2>2. /\ f \in FilesOf(Packages) /\ f.pkg \in Packages
        /\ me.dir = "library" => Whole(f) /\ Conditioned(f.pkg)
    <3>1. f \in FilesOf(Packages)
      BY <1>2 DEF StoreInv, TypeOK
    <3>2. me.dir = "library" => me.kind = "build"
      BY <1>1, Writer
    <3> QED
      BY <1>1, <1>2, <1>4, <3>1, <3>2, FileTypes DEF StoreInv, LibraryTempsInv, RequestInv
  <2>3. /\ others \in [Threads -> Requests]
        /\ \A u \in Threads :
             \/ others[u] = thread[u]
             \/ others[u] = [thread[u] EXCEPT !.steady = FALSE]
        /\ \A u \in Threads : me.dir = "modelrig" /\ thread[u].kind = "promote"
             /\ thread[u].name = me.name => ~others[u].steady
    BY DEF StoreInv, TypeOK, Unsteady, Requests
  <2> HIDE DEF others
  <2>4. /\ r \in Requests /\ r.pc = "cleanup" /\ r.name = me.name /\ r.kind = me.kind
        /\ r.dir = me.dir
    <3>1. /\ others[t] \in Requests /\ others[t].kind = me.kind /\ others[t].name = me.name
          /\ others[t].dir = me.dir
      BY <1>2, <2>3 DEF Requests
    <3> QED
      BY <3>1 DEF Requests, Pcs, Writing
  <2>5. thread'[t] = r /\ thread' \in [Threads -> Requests]
    BY <2>1, <2>3, <2>4
  <2> HIDE DEF r
  <2>6. \A u \in Threads \ {t} : thread'[u] = others[u]
    BY <2>1, <2>3
  <2>7. TypeOK'
    BY <1>2, <2>1, <2>2, <2>5, FileTypes DEF StoreInv, TypeOK
  <2>8. RequestInv(t)'
    BY <1>1, <1>2, <2>1, <2>4, <2>5 DEF RequestInv, Rebuilding, Writing
  <2>9. ASSUME NEW u \in Threads \ {t} PROVE RequestInv(u)'
    <3>1. thread'[u] = thread[u] \/ thread'[u] = [thread[u] EXCEPT !.steady = FALSE]
      BY <2>3, <2>6
    <3>2. gate = u => temp'["library"] = temp["library"]
      BY <1>1, <2>1, Writer DEF StoreInv, TypeOK, Dirs
    <3>3. thread[u].pc \in Rebuilding /\ thread'[u].steady =>
            shelf'["modelrig"][thread[u].name] = shelf["modelrig"][thread[u].name]
      <4>1. thread[u].pc \in Rebuilding => thread[u].kind = "promote" /\ thread[u].name \in Names
        BY DEF StoreInv, RequestInv, Rebuilding
      <4> QED
        BY <1>2, <2>1, <2>3, <2>6, <4>1 DEF StoreInv, TypeOK, Dirs
    <3> QED
      BY <2>1, <3>1, <3>2, <3>3, OthersKeep
  <2>10. LibraryTempsInv' /\ LibraryIsSound'
    <3>1. \A n \in Names : \/ temp'["library"][n] = temp["library"][n]
                           \/ temp'["library"][n] = NoFile
      BY <1>2, <2>1 DEF StoreInv, TypeOK, Dirs
    <3>2. \A n \in Names : \/ shelf'["library"][n] = shelf["library"][n]
                           \/ me.dir = "library" /\ shelf'["library"][n] = f
      BY <1>2, <2>1 DEF StoreInv, TypeOK, Dirs
    <3> QED
      BY <2>2, <3>1, <3>2, FileTypes DEF StoreInv, LibraryTempsInv, LibraryIsSound, Exists, Whole
  <2>11. MarkedInv' /\ DefaultIsInstalled'
    <3>1. \A n \in Names : Exists(shelf["modelrig"][n]) => Exists(shelf'["modelrig"][n])
      BY <1>2, <1>4, <2>1 DEF StoreInv, TypeOK, Dirs
    <3>2. ASSUME NEW u \in Threads \ {t}
          PROVE  thread'[u].pc = thread[u].pc /\ thread'[u].name = thread[u].name
      <4>1. thread[u] \in Requests
        BY DEF StoreInv, TypeOK
      <4> QED
        BY <2>3, <2>6, <4>1 DEF Requests
    <3> QED
      BY <1>1, <2>1, <2>4, <2>5, <3>1, <3>2, MarkersKeep DEF Deleting
  <2> QED
    BY <2>7, <2>8, <2>9, <2>10, <2>11 DEF StoreInv
<1> QED
  BY <1>3, <1>4

LEMMA CleanupKeeps ==
  ASSUME StoreInv, NEW t \in Threads, Cleanup(t)
  PROVE  StoreInv'
<1> DEFINE me == thread[t]
<1>1. me.pc = "cleanup" /\ me.pc \in Writing
  BY DEF Cleanup, Writing
<1>2. me \in Requests /\ RequestInv(t) /\ me.name \in Names /\ me.dir \in Dirs
  BY <1>1, Writer
<1>3. PICK r \in {Idle, Installing("library", me.name)} : thread' = [thread EXCEPT ![t] = r]
  BY DEF Cleanup, End
<1>4. /\ r \in Requests /\ r.pc \in {"idle", "copy"} /\ r.kind \in {"none", "install"}
      /\ r.pc = "copy" => r.name \in Names
  <2>1. CASE r = Idle
    BY <2>1, IdleRequest DEF Idle
  <2>2. CASE r = Installing("library", me.name)
    <3>1. "library" \in Dirs
      BY DEF Dirs
    <3>2. r \in Requests
      BY <1>2, <2>2, <3>1, IdleRequest
    <3> QED
      BY <1>2, <2>2, <3>2 DEF Idle, Installing
  <2> QED
    BY <2>1, <2>2
<1>5. thread'[t] = r /\ \A u \in Threads \ {t} : thread'[u] = thread[u]
  BY <1>3 DEF StoreInv, TypeOK
<1>6. /\ temp' \in {temp, [temp EXCEPT ![me.dir][me.name] = NoFile]}
      /\ gate' = gate \/ (gate = t /\ gate' = Nobody)
      /\ UNCHANGED <<shelf, default, marker, torn>>
  BY <1>2 DEF Cleanup, RequestInv
<1>7. TypeOK'
  <2>1. thread' \in [Threads -> Requests] /\ gate' \in Threads \cup {Nobody}
    BY <1>3, <1>4, <1>6 DEF StoreInv, TypeOK
  <2>2. temp \in [Dirs -> [Names -> FilesOf(Packages)]]
    BY DEF StoreInv, TypeOK
  <2>3. [temp EXCEPT ![me.dir][me.name] = NoFile] \in [Dirs -> [Names -> FilesOf(Packages)]]
    BY <1>2, <2>2, FileTypes
  <2>4. temp' \in [Dirs -> [Names -> FilesOf(Packages)]]
    BY <1>6, <2>2, <2>3
  <2> QED
    BY <1>6, <2>1, <2>4 DEF StoreInv, TypeOK
<1>8. RequestInv(t)'
  BY <1>4, <1>5 DEF RequestInv, Rebuilding, Writing
<1>9. \A n \in Names : \/ temp'["library"][n] = temp["library"][n]
                       \/ temp'["library"][n] = NoFile
  BY <1>2, <1>6 DEF StoreInv, TypeOK, Dirs
<1>10. ASSUME NEW u \in Threads \ {t} PROVE RequestInv(u)'
  BY <1>5, <1>6, <1>9, FileTypes, OthersKeep
<1>11. LibraryTempsInv' /\ LibraryIsSound'
  BY <1>6, <1>9, FileTypes DEF StoreInv, LibraryTempsInv, LibraryIsSound, Exists, Whole
<1>12. MarkedInv' /\ DefaultIsInstalled'
  BY <1>1, <1>4, <1>5, <1>6, MarkersKeep DEF Deleting
<1> QED
  BY <1>7, <1>8, <1>10, <1>11, <1>12 DEF StoreInv
LEMMA PlaceKeeps ==
  ASSUME StoreInv, NEW t \in Threads, Place(t)
  PROVE  StoreInv'
<1> DEFINE me == thread[t]
           f == File(me.pkg, IF me.ok THEN Nobody ELSE Lost)
           others == Unsteady(me.name)
           r == [others[t] EXCEPT !.pc = "mark", !.pkg = NoPackage]
<1>1. me \in Requests /\ RequestInv(t) /\ me.pc = "place" /\ me.name \in Names /\ me.pkg \in Packages
  BY DEF StoreInv, TypeOK, RequestInv, Place, Requests
<1>2. f \in FilesOf(Packages) /\ Exists(f)
  BY <1>1, FileTypes
<1>3. /\ shelf' = [shelf EXCEPT !["modelrig"][me.name] = f]
      /\ thread' = [others EXCEPT ![t] = r]
      /\ torn' = torn \ {me.name}
      /\ UNCHANGED <<temp, default, marker, gate>>
  BY DEF Place
<1>4. /\ others \in [Threads -> Requests]
      /\ \A u \in Threads :
           others[u] = thread[u] \/ others[u] = [thread[u] EXCEPT !.steady = FALSE]
      /\ \A u \in Threads :
           thread[u].kind = "promote" /\ thread[u].name = me.name => ~others[u].steady
  BY DEF StoreInv, TypeOK, Unsteady, Requests
<1> HIDE DEF others, f
<1>5. r \in Requests /\ r.pc = "mark" /\ r.name = me.name /\ r.kind = me.kind
  <2>1. others[t] \in Requests /\ others[t].kind = me.kind /\ others[t].name = me.name
    BY <1>1, <1>4 DEF Requests
  <2> QED
    BY <2>1 DEF Requests, Pcs
<1>6. thread'[t] = r /\ thread' \in [Threads -> Requests]
  BY <1>3, <1>4, <1>5
<1> HIDE DEF r
<1>7. \A u \in Threads \ {t} : thread'[u] = others[u]
  BY <1>3, <1>4
<1>8. TypeOK'
  BY <1>1, <1>2, <1>3, <1>6 DEF StoreInv, TypeOK, Dirs
<1>9. RequestInv(t)'
  BY <1>1, <1>5, <1>6 DEF RequestInv, Rebuilding, Writing
<1>10. ASSUME NEW u \in Threads \ {t} PROVE RequestInv(u)'
  <2>1. thread[u].pc \in Rebuilding /\ thread'[u].steady =>
          shelf'["modelrig"][thread[u].name] = shelf["modelrig"][thread[u].name]
    <3>1. thread[u].pc \in Rebuilding => thread[u].kind = "promote" /\ thread[u].name \in Names
      BY DEF StoreInv, RequestInv, Rebuilding
    <3> QED
      BY <1>1, <1>3, <1>4, <1>7, <3>1 DEF StoreInv, TypeOK, Dirs
  <2> QED
    BY <1>3, <1>4, <1>7, <2>1, OthersKeep
<1>11. shelf'["library"] = shelf["library"]
  BY <1>3 DEF StoreInv, TypeOK, Dirs
<1>12. LibraryTempsInv' /\ LibraryIsSound'
  BY <1>3, <1>11 DEF StoreInv, LibraryTempsInv, LibraryIsSound, Exists, Whole
<1>13. \A u \in Threads \ {t} : thread'[u].pc = thread[u].pc /\ thread'[u].name = thread[u].name
  <2>1. ASSUME NEW u \in Threads \ {t}
        PROVE  thread'[u].pc = thread[u].pc /\ thread'[u].name = thread[u].name
    <3>1. thread[u] \in Requests
      BY DEF StoreInv, TypeOK
    <3> QED
      BY <1>4, <1>7, <3>1 DEF Requests
  <2> QED
    BY <2>1
<1>14. \A n \in Names : Exists(shelf["modelrig"][n]) \/ n = me.name => Exists(shelf'["modelrig"][n])
  BY <1>1, <1>2, <1>3 DEF StoreInv, TypeOK, Dirs
<1>15. MarkedInv'
  <2>1. ASSUME NEW n \in Names, BeingMarked(n)' PROVE BeingMarked(n) \/ n = me.name
    BY <1>3, <1>5, <1>6, <1>13, <2>1 DEF BeingMarked
  <2> QED
    BY <1>3, <1>14, <2>1 DEF StoreInv, MarkedInv
<1>16. DefaultIsInstalled'
  <2>1. ASSUME NEW u \in Threads, thread[u].name = default, Deleting(u)
        PROVE  thread'[u].name = default /\ Deleting(u)'
    BY <1>1, <1>13, <2>1 DEF Deleting
  <2> QED
    BY <1>3, <1>14, <2>1 DEF StoreInv, TypeOK, DefaultIsInstalled
<1> QED
  BY <1>8, <1>9, <1>10, <1>12, <1>15, <1>16 DEF StoreInv

LEMMA MarkKeeps ==
  ASSUME StoreInv, NEW t \in Threads, Mark(t)
  PROVE  StoreInv'
<1> DEFINE me == thread[t]
           r == [me EXCEPT !.pc = "commit"]
<1>1. me \in Requests /\ RequestInv(t) /\ me.pc = "mark" /\ me.name \in Names
  BY DEF StoreInv, TypeOK, RequestInv, Mark
<1>2. /\ r \in Requests /\ r.pc = "commit" /\ r.name = me.name /\ r.kind = me.kind
      /\ thread' = [thread EXCEPT ![t] = r] /\ thread'[t] = r
  BY <1>1 DEF StoreInv, TypeOK, Mark, Goto, Requests, Pcs
<1>3. \A u \in Threads \ {t} : thread'[u] = thread[u]
  BY <1>2 DEF StoreInv, TypeOK
<1>4. marker' = me.name /\ UNCHANGED <<shelf, temp, default, gate, torn>>
  BY DEF Mark
<1> HIDE DEF r
<1>5. TypeOK'
  BY <1>1, <1>2, <1>4 DEF StoreInv, TypeOK
<1>6. RequestInv(t)'
  BY <1>1, <1>2 DEF RequestInv, Rebuilding, Writing
<1>7. ASSUME NEW u \in Threads \ {t} PROVE RequestInv(u)'
  BY <1>3, <1>4, OthersKeep
<1>8. LibraryTempsInv' /\ LibraryIsSound'
  BY <1>4 DEF StoreInv, LibraryTempsInv, LibraryIsSound, Exists, Whole
<1>9. MarkedInv'
  <2>1. ASSUME NEW n \in Names, BeingMarked(n)' PROVE BeingMarked(n)
    BY <1>1, <1>2, <1>3, <1>4, <2>1 DEF BeingMarked
  <2> QED
    BY <1>4, <2>1 DEF StoreInv, MarkedInv, Exists
<1>10. DefaultIsInstalled'
  <2>1. ASSUME NEW u \in Threads, thread[u].name = default, Deleting(u)
        PROVE  thread'[u].name = default /\ Deleting(u)'
    BY <1>1, <1>3, <2>1 DEF Deleting
  <2> QED
    BY <1>4, <2>1 DEF StoreInv, DefaultIsInstalled, Exists
<1> QED
  BY <1>5, <1>6, <1>7, <1>8, <1>9, <1>10 DEF StoreInv

\* Whoever's name default.txt.tmp holds, that voice is installed.
LEMMA CommitKeeps ==
  ASSUME StoreInv, NEW t \in Threads, Commit(t)
  PROVE  StoreInv'
<1> DEFINE me == thread[t]
           r == [me EXCEPT !.pc = "confirm"]
<1>1. me \in Requests /\ RequestInv(t) /\ me.pc = "commit" /\ me.name \in Names
  BY DEF StoreInv, TypeOK, RequestInv, Commit
<1>2. CASE marker = None
  BY <1>1, <1>2, EndKeeps DEF Commit, Deleting, files
<1>3. CASE marker # None
  <2>1. /\ r \in Requests /\ r.pc = "confirm" /\ r.name = me.name /\ r.kind = me.kind
        /\ thread' = [thread EXCEPT ![t] = r] /\ thread'[t] = r
    BY <1>1, <1>3 DEF StoreInv, TypeOK, Commit, Goto, Requests, Pcs
  <2>2. \A u \in Threads \ {t} : thread'[u] = thread[u]
    BY <2>1 DEF StoreInv, TypeOK
  <2>3. default' = marker /\ marker' = None /\ UNCHANGED <<shelf, temp, gate, torn>>
    BY <1>3 DEF Commit
  <2> HIDE DEF r
  <2>4. TypeOK'
    BY <2>1, <2>3 DEF StoreInv, TypeOK
  <2>5. RequestInv(t)'
    BY <1>1, <2>1 DEF RequestInv, Rebuilding, Writing
  <2>6. ASSUME NEW u \in Threads \ {t} PROVE RequestInv(u)'
    BY <2>2, <2>3, OthersKeep
  <2>7. LibraryTempsInv' /\ LibraryIsSound'
    BY <2>3 DEF StoreInv, LibraryTempsInv, LibraryIsSound, Exists, Whole
  <2>8. MarkedInv'
    <3>1. ASSUME NEW n \in Names, BeingMarked(n)' PROVE BeingMarked(n)
      BY <2>1, <2>2, <2>3, <3>1, StoreAssumption DEF BeingMarked
    <3> QED
      BY <2>3, <3>1 DEF StoreInv, MarkedInv, Exists
  <2>9. DefaultIsInstalled'
    <3>1. marker \in Names /\ BeingMarked(marker)
      BY <1>1, <1>3 DEF StoreInv, TypeOK, BeingMarked
    <3> QED
      BY <2>3, <3>1 DEF StoreInv, MarkedInv, DefaultIsInstalled, Exists
  <2> QED
    BY <2>4, <2>5, <2>6, <2>7, <2>8, <2>9 DEF StoreInv
<1> QED
  BY <1>2, <1>3
LEMMA ShelveKeeps ==
  ASSUME StoreInv, NEW t \in Threads, Shelve(t)
  PROVE  StoreInv'
<1> DEFINE me == thread[t]
           f == File(me.pkg, Nobody)
<1>1. /\ me \in Requests /\ RequestInv(t) /\ me.pc = "shelve" /\ me.name \in Names
      /\ me.pkg \in Packages /\ Conditioned(me.pkg)
  BY DEF StoreInv, TypeOK, RequestInv, Shelve, Requests
<1>2. f \in FilesOf(Packages) /\ Exists(f) /\ Whole(f) /\ Conditioned(f.pkg)
  BY <1>1, FileTypes DEF File, Whole
<1>3. PICK r \in {Idle, Installing("library", me.name)} : thread' = [thread EXCEPT ![t] = r]
  BY DEF Shelve, End
<1>4. r \in Requests /\ r.pc \in {"idle", "copy"} /\ r.kind \in {"none", "install"}
      /\ (r.pc = "copy" => r.name \in Names)
  <2>1. CASE r = Idle
    BY <2>1, IdleRequest DEF Idle
  <2>2. CASE r = Installing("library", me.name)
    <3>1. r \in Requests
      BY <1>1, <2>2, IdleRequest DEF Dirs
    <3> QED
      BY <1>1, <2>2, <3>1 DEF Idle, Installing
  <2> QED
    BY <2>1, <2>2
<1>5. thread'[t] = r /\ \A u \in Threads \ {t} : thread'[u] = thread[u]
  BY <1>3 DEF StoreInv, TypeOK
<1>6. /\ shelf' = [shelf EXCEPT !["library"][me.name] = f]
      /\ UNCHANGED <<temp, default, marker, gate, torn>>
  BY DEF Shelve
<1> HIDE DEF f
<1>7. /\ shelf'["modelrig"] = shelf["modelrig"]
      /\ \A n \in Names : shelf'["library"][n] \in {shelf["library"][n], f}
  BY <1>1, <1>6 DEF StoreInv, TypeOK, Dirs
<1>8. TypeOK'
  BY <1>1, <1>2, <1>3, <1>4, <1>6 DEF StoreInv, TypeOK, Dirs
<1>9. RequestInv(t)'
  BY <1>4, <1>5 DEF RequestInv, Rebuilding, Writing
<1>10. ASSUME NEW u \in Threads \ {t} PROVE RequestInv(u)'
  BY <1>5, <1>6, <1>7, OthersKeep
<1>11. LibraryTempsInv' /\ LibraryIsSound'
  BY <1>2, <1>6, <1>7 DEF StoreInv, LibraryTempsInv, LibraryIsSound, Exists, Whole
<1>12. MarkedInv' /\ DefaultIsInstalled'
  BY <1>1, <1>4, <1>5, <1>6, <1>7, MarkersKeep DEF Deleting
<1> QED
  BY <1>8, <1>9, <1>10, <1>11, <1>12 DEF StoreInv

LEMMA UnlinkLibraryKeeps ==
  ASSUME StoreInv, NEW t \in Threads, UnlinkLibrary(t)
  PROVE  StoreInv'
<1> DEFINE me == thread[t]
           r == [me EXCEPT !.pc = "unlink2"]
<1>1. me \in Requests /\ RequestInv(t) /\ me.pc = "unlink" /\ me.name \in Names
  BY DEF StoreInv, TypeOK, RequestInv, UnlinkLibrary
<1>2. /\ r \in Requests /\ r.pc = "unlink2" /\ r.name = me.name /\ r.kind = me.kind
      /\ thread' = [thread EXCEPT ![t] = r] /\ thread'[t] = r
  BY <1>1 DEF StoreInv, TypeOK, UnlinkLibrary, Requests, Pcs
<1>3. \A u \in Threads \ {t} : thread'[u] = thread[u]
  BY <1>2 DEF StoreInv, TypeOK
<1>4. /\ shelf' = [shelf EXCEPT !["library"][me.name] = NoFile]
      /\ UNCHANGED <<temp, default, marker, gate, torn>>
  BY DEF UnlinkLibrary
<1>5. /\ shelf'["modelrig"] = shelf["modelrig"]
      /\ \A n \in Names : shelf'["library"][n] \in {shelf["library"][n], NoFile}
  BY <1>1, <1>4 DEF StoreInv, TypeOK, Dirs
<1> HIDE DEF r
<1>6. TypeOK'
  BY <1>1, <1>2, <1>4, FileTypes DEF StoreInv, TypeOK, Dirs
<1>7. RequestInv(t)'
  BY <1>1, <1>2 DEF RequestInv, Rebuilding, Writing
<1>8. ASSUME NEW u \in Threads \ {t} PROVE RequestInv(u)'
  BY <1>3, <1>4, <1>5, OthersKeep
<1>9. LibraryTempsInv' /\ LibraryIsSound'
  BY <1>4, <1>5, FileTypes DEF StoreInv, LibraryTempsInv, LibraryIsSound, Exists, Whole
<1>10. MarkedInv' /\ DefaultIsInstalled'
  BY <1>1, <1>2, <1>3, <1>4, <1>5, MarkersKeep DEF Deleting
<1> QED
  BY <1>6, <1>7, <1>8, <1>9, <1>10 DEF StoreInv

LEMMA UnlinkModelRigKeeps ==
  ASSUME StoreInv, NEW t \in Threads, UnlinkModelRig(t)
  PROVE  StoreInv'
<1> DEFINE me == thread[t]
           others == Unsteady(me.name)
           r == [others[t] EXCEPT !.pc = "compare"]
<1>1. me \in Requests /\ RequestInv(t) /\ me.pc = "unlink2" /\ me.name \in Names
  BY DEF StoreInv, TypeOK, RequestInv, UnlinkModelRig, Requests
<1>2. /\ shelf' = [shelf EXCEPT !["modelrig"][me.name] = NoFile]
      /\ thread' = [others EXCEPT ![t] = r]
      /\ torn' = IF BeingMarked(me.name) THEN torn \cup {me.name} ELSE torn
      /\ UNCHANGED <<temp, default, marker, gate>>
  BY DEF UnlinkModelRig
<1>3. /\ others \in [Threads -> Requests]
      /\ \A u \in Threads :
           others[u] = thread[u] \/ others[u] = [thread[u] EXCEPT !.steady = FALSE]
      /\ \A u \in Threads :
           thread[u].kind = "promote" /\ thread[u].name = me.name => ~others[u].steady
  BY DEF StoreInv, TypeOK, Unsteady, Requests
<1> HIDE DEF others
<1>4. r \in Requests /\ r.pc = "compare" /\ r.name = me.name /\ r.kind = me.kind
  <2>1. others[t] \in Requests /\ others[t].kind = me.kind /\ others[t].name = me.name
    BY <1>1, <1>3 DEF Requests
  <2> QED
    BY <2>1 DEF Requests, Pcs
<1>5. thread'[t] = r /\ thread' \in [Threads -> Requests]
  BY <1>2, <1>3, <1>4
<1> HIDE DEF r
<1>6. \A u \in Threads \ {t} : thread'[u] = others[u]
  BY <1>2, <1>3
<1>7. TypeOK'
  BY <1>1, <1>2, <1>5, FileTypes DEF StoreInv, TypeOK, Dirs
<1>8. RequestInv(t)'
  BY <1>1, <1>4, <1>5 DEF RequestInv, Rebuilding, Writing
<1>9. ASSUME NEW u \in Threads \ {t} PROVE RequestInv(u)'
  <2>1. thread[u].pc \in Rebuilding /\ thread'[u].steady =>
          shelf'["modelrig"][thread[u].name] = shelf["modelrig"][thread[u].name]
    <3>1. thread[u].pc \in Rebuilding => thread[u].kind = "promote" /\ thread[u].name \in Names
      BY DEF StoreInv, RequestInv, Rebuilding
    <3> QED
      BY <1>1, <1>2, <1>3, <1>6, <3>1 DEF StoreInv, TypeOK, Dirs
  <2> QED
    BY <1>2, <1>3, <1>6, <2>1, OthersKeep
<1>10. shelf'["library"] = shelf["library"]
  BY <1>2 DEF StoreInv, TypeOK, Dirs
<1>11. LibraryTempsInv' /\ LibraryIsSound'
  BY <1>2, <1>10 DEF StoreInv, LibraryTempsInv, LibraryIsSound, Exists, Whole
<1>12. \A u \in Threads \ {t} : thread'[u].pc = thread[u].pc /\ thread'[u].name = thread[u].name
  <2>1. ASSUME NEW u \in Threads \ {t}
        PROVE  thread'[u].pc = thread[u].pc /\ thread'[u].name = thread[u].name
    <3>1. thread[u] \in Requests
      BY DEF StoreInv, TypeOK
    <3> QED
      BY <1>3, <1>6, <3>1 DEF Requests
  <2> QED
    BY <2>1
<1>13. \A n \in Names \ {me.name} : shelf'["modelrig"][n] = shelf["modelrig"][n]
  BY <1>1, <1>2 DEF StoreInv, TypeOK, Dirs
<1>14. MarkedInv'
  <2>1. \A n \in Names : BeingMarked(n)' => BeingMarked(n)
    BY <1>2, <1>4, <1>5, <1>12 DEF BeingMarked
  <2>2. BeingMarked(me.name) => me.name \in torn'
    BY <1>2
  <2>3. torn \subseteq torn'
    BY <1>2
  <2> QED
    BY <1>13, <2>1, <2>2, <2>3 DEF StoreInv, MarkedInv
<1>15. DefaultIsInstalled'
  <2>1. ASSUME NEW u \in Threads, thread[u].name = default, Deleting(u)
        PROVE  thread'[u].name = default /\ Deleting(u)'
    BY <1>1, <1>12, <2>1 DEF Deleting
  <2>2. thread'[t].name = me.name /\ Deleting(t)'
    BY <1>4, <1>5 DEF Deleting
  <2>3. torn \subseteq torn'
    BY <1>2
  <2>4. CASE default = me.name
    BY <1>2, <2>2, <2>4 DEF DefaultIsInstalled
  <2>5. CASE default # me.name
    BY <1>2, <1>13, <2>1, <2>3, <2>5 DEF StoreInv, TypeOK, DefaultIsInstalled
  <2> QED
    BY <2>4, <2>5
<1> QED
  BY <1>7, <1>8, <1>9, <1>11, <1>14, <1>15 DEF StoreInv

LEMMA UnmarkKeeps ==
  ASSUME StoreInv, NEW t \in Threads, Unmark(t)
  PROVE  StoreInv'
<1>1. thread' = [thread EXCEPT ![t] = Idle] /\ thread'[t] = Idle
  BY DEF StoreInv, TypeOK, Unmark, End
<1>2. \A u \in Threads \ {t} : thread'[u] = thread[u]
  BY <1>1 DEF StoreInv, TypeOK
<1>3. default' = None /\ UNCHANGED <<shelf, temp, marker, gate, torn>>
  BY DEF Unmark
<1>4. TypeOK'
  BY <1>1, <1>3, IdleRequest DEF StoreInv, TypeOK
<1>5. RequestInv(t)'
  BY <1>1 DEF RequestInv, Rebuilding, Writing, Idle
<1>6. ASSUME NEW u \in Threads \ {t} PROVE RequestInv(u)'
  BY <1>2, <1>3, OthersKeep
<1>7. LibraryTempsInv' /\ LibraryIsSound'
  BY <1>3 DEF StoreInv, LibraryTempsInv, LibraryIsSound, Exists, Whole
<1>8. MarkedInv'
  <2>1. \A n \in Names : BeingMarked(n)' => BeingMarked(n)
    BY <1>1, <1>2, <1>3, IdleRequest DEF BeingMarked
  <2> QED
    BY <1>3, <2>1 DEF StoreInv, MarkedInv, Exists
<1>9. DefaultIsInstalled'
  BY <1>3 DEF DefaultIsInstalled
<1> QED
  BY <1>4, <1>5, <1>6, <1>7, <1>8, <1>9 DEF StoreInv
-----------------------------------------------------------------------------
(* Failures *)

\* Every file that was finished stays as it is; the others stay what they were.
LEMMA AbandonKeeps ==
  ASSUME StoreInv, NEW dead \in SUBSET Threads, Abandon(dead)
  PROVE  /\ shelf' \in [Dirs -> [Names -> FilesOf(Packages)]]
         /\ temp' \in [Dirs -> [Names -> FilesOf(Packages)]]
         /\ \A d \in Dirs, n \in Names :
              shelf'[d][n].pkg = shelf[d][n].pkg /\ temp'[d][n].pkg = temp[d][n].pkg
         /\ \A n \in Names :
              /\ Whole(shelf["library"][n]) => shelf'["library"][n] = shelf["library"][n]
              /\ Whole(temp["library"][n]) => temp'["library"][n] = temp["library"][n]
<1>1. \A d \in Dirs, n \in Names :
        shelf[d][n] \in FilesOf(Packages) /\ temp[d][n] \in FilesOf(Packages)
  BY DEF StoreInv, TypeOK
<1>2. ASSUME NEW f \in FilesOf(Packages)
      PROVE  /\ Orphaned(f, dead) \in FilesOf(Packages) /\ Orphaned(f, dead).pkg = f.pkg
             /\ Whole(f) => Orphaned(f, dead) = f
  BY Relabel DEF Orphaned, Whole
<1> QED
  BY <1>1, <1>2 DEF Abandon, Dirs

LEMMA FailKeeps ==
  ASSUME StoreInv, NEW t \in Threads, Fail(t)
  PROVE  StoreInv'
<1> DEFINE me == thread[t]
<1>1. me \in Requests /\ RequestInv(t) /\ me.name \in Names
  BY DEF StoreInv, TypeOK, RequestInv, Fail
<1>2. /\ shelf' \in [Dirs -> [Names -> FilesOf(Packages)]]
      /\ \A d \in Dirs, n \in Names : shelf'[d][n].pkg = shelf[d][n].pkg
      /\ \A n \in Names :
           Whole(shelf["library"][n]) => shelf'["library"][n] = shelf["library"][n]
  BY AbandonKeeps DEF Fail
<1>3. /\ temp' \in [Dirs -> [Names -> FilesOf(Packages)]]
      /\ \A n \in Names : temp'["library"][n].pkg = temp["library"][n].pkg
      /\ \A n \in Names : Whole(temp["library"][n]) => temp'["library"][n] = temp["library"][n]
  BY AbandonKeeps DEF Fail, Dirs
<1>4. PICK r \in Requests :
        /\ thread' = [thread EXCEPT ![t] = r]
        /\ \/ r = Idle /\ gate' \in {gate, Nobody} /\ (gate' # gate => gate = t)
           \/ /\ me.pc \in Writing /\ gate' = gate
              /\ r.pc = "cleanup" /\ r.name = me.name /\ r.kind = me.kind /\ r.dir = me.dir
  <2>1. CASE me.pc \in Writing \ {"clear"}
    <3> DEFINE r == [me EXCEPT !.pc = "cleanup", !.ok = FALSE]
    <3>1. /\ r \in Requests /\ r.pc = "cleanup" /\ r.name = me.name /\ r.kind = me.kind
          /\ r.dir = me.dir
      BY <1>1 DEF Requests, Pcs, Writing
    <3>2. thread' = [thread EXCEPT ![t] = r] /\ gate' = gate
      BY <2>1 DEF StoreInv, TypeOK, Fail
    <3> QED
      BY <2>1, <3>1, <3>2
  <2>2. CASE me.pc \notin Writing \ {"clear"}
    BY <2>2, IdleRequest DEF Fail, End
  <2> QED
    BY <2>1, <2>2
<1>5. thread'[t] = r /\ \A u \in Threads \ {t} : thread'[u] = thread[u]
  BY <1>4 DEF StoreInv, TypeOK
<1>6. /\ UNCHANGED <<default, marker>>
      /\ torn' = IF Deleting(t) THEN torn \cup {me.name} ELSE torn
  BY DEF Fail
<1>7. TypeOK'
  BY <1>1, <1>2, <1>3, <1>4, <1>6 DEF StoreInv, TypeOK
<1>8. RequestInv(t)'
  BY <1>1, <1>4, <1>5 DEF RequestInv, Rebuilding, Writing, Idle
<1>9. ASSUME NEW u \in Threads \ {t} PROVE RequestInv(u)'
  <2>1. thread[u].pc \in Rebuilding => thread[u].name \in Names
    BY DEF StoreInv, RequestInv, Rebuilding
  <2>2. gate = u => gate' = u
    BY <1>4
  <2> QED
    BY <1>2, <1>3, <1>5, <2>1, <2>2, OthersKeep DEF Exists, Dirs
<1>10. LibraryTempsInv' /\ LibraryIsSound'
  BY <1>2, <1>3 DEF StoreInv, LibraryTempsInv, LibraryIsSound, Exists, Dirs
<1>11. MarkedInv' /\ DefaultIsInstalled'
  <2>1. r.pc \notin {"mark", "commit"}
    BY <1>4, IdleRequest
  <2> QED
    BY <1>2, <1>5, <1>6, <2>1, MarkersKeep DEF Exists, Dirs
<1> QED
  BY <1>7, <1>8, <1>9, <1>10, <1>11 DEF StoreInv

LEMMA CrashKeeps ==
  ASSUME StoreInv, Crash
  PROVE  StoreInv'
<1>1. /\ thread' = [t \in Threads |-> Idle] /\ gate' = Nobody
      /\ torn' = torn \cup {thread[t].name : t \in {u \in Threads : Deleting(u)}}
      /\ UNCHANGED <<default, marker>>
  BY DEF Crash
<1>2. /\ shelf' \in [Dirs -> [Names -> FilesOf(Packages)]]
      /\ temp' \in [Dirs -> [Names -> FilesOf(Packages)]]
      /\ \A n \in Names : temp'["library"][n].pkg = temp["library"][n].pkg
      /\ \A d \in Dirs, n \in Names : shelf'[d][n].pkg = shelf[d][n].pkg
      /\ \A n \in Names :
           Whole(shelf["library"][n]) => shelf'["library"][n] = shelf["library"][n]
  BY AbandonKeeps DEF Crash, Dirs
<1>3. torn' \in SUBSET Names
  <2>1. \A u \in Threads : Deleting(u) => thread[u].name \in Names
    BY DEF StoreInv, RequestInv, Deleting
  <2> QED
    BY <1>1, <2>1 DEF StoreInv, TypeOK
<1>4. TypeOK'
  BY <1>1, <1>2, <1>3, IdleRequest, FileTypes DEF StoreInv, TypeOK
<1>5. \A t \in Threads : RequestInv(t)'
  BY <1>1 DEF RequestInv, Rebuilding, Idle, Writing
<1>6. LibraryTempsInv' /\ LibraryIsSound'
  BY <1>1, <1>2, FileTypes DEF StoreInv, LibraryTempsInv, LibraryIsSound, Exists, Dirs
<1>7. MarkedInv'
  BY <1>1, StoreAssumption DEF MarkedInv, BeingMarked, Idle
<1>8. DefaultIsInstalled'
  <2>1. ASSUME NEW u \in Threads, thread[u].name = default, Deleting(u)
        PROVE  default \in torn'
    BY <1>1, <2>1
  <2> QED
    BY <1>1, <1>2, <2>1 DEF StoreInv, TypeOK, DefaultIsInstalled, Exists, Dirs
<1> QED
  BY <1>4, <1>5, <1>6, <1>7, <1>8 DEF StoreInv

-----------------------------------------------------------------------------
(* The theorems *)

LEMMA StoreInvariant == Spec => []StoreInv
<1>1. Init => StoreInv
  <2> SUFFICES ASSUME Init PROVE StoreInv
    OBVIOUS
  <2>1. TypeOK
    BY IdleRequest, FileTypes DEF Init, TypeOK
  <2>2. \A t \in Threads : RequestInv(t)
    BY DEF Init, RequestInv, Rebuilding, Idle, Writing
  <2>3. LibraryTempsInv /\ LibraryIsSound
    BY FileTypes DEF Init, LibraryTempsInv, LibraryIsSound, Dirs
  <2>4. MarkedInv /\ DefaultIsInstalled
    BY StoreAssumption DEF Init, MarkedInv, DefaultIsInstalled, BeingMarked, Idle
  <2> QED
    BY <2>1, <2>2, <2>3, <2>4 DEF StoreInv
<1>2. StoreInv /\ [Next]_vars => StoreInv'
  <2> SUFFICES ASSUME StoreInv, [Next]_vars PROVE StoreInv'
    OBVIOUS
  <2>1. CASE UNCHANGED vars
    BY <2>1 DEF vars, files, StoreInv, TypeOK, RequestInv, LibraryTempsInv, LibraryIsSound,
                MarkedInv, DefaultIsInstalled, BeingMarked, Deleting, Exists, Whole
  <2>2. CASE Crash
    BY <2>2, CrashKeeps
  <2>3. ASSUME NEW t \in Threads, Step(t) PROVE StoreInv'
    <3>1. CASE Confirm(t)
      BY <3>1, EndKeeps DEF Confirm, Deleting
    <3>2. ASSUME NEW v \in Voices, Artifacts(t, v) \/ \E n \in Names : BeginImport(t, n, v)
          PROVE  StoreInv'
      BY <3>2, BeginImportKeeps, ArtifactsKeeps
    <3>3. Recorded \subseteq Voices
      BY StoreAssumption
    <3> QED
      BY <2>3, <3>1, <3>2, <3>3, BeginKeeps, ClearKeeps, OpenKeeps, FillKeeps,
         CheckKeeps, SwapKeeps, CleanupKeeps, ExtractKeeps, IdentifyKeeps, RebuildKeeps, CopyKeeps,
         PlaceKeeps,
         MarkKeeps, CommitKeeps, ShelveKeeps, UnlinkLibraryKeeps, UnlinkModelRigKeeps,
         CompareKeeps, UnmarkKeeps, FailKeeps DEF Step
  <2> QED
    BY <2>1, <2>2, <2>3 DEF Next
<1> QED
  BY <1>1, <1>2, PTL DEF Spec

\* The files, the markers and the requests have their types.
THEOREM TypeCorrect == Spec => []TypeOK
<1>1. StoreInv => TypeOK
  BY DEF StoreInv
<1> QED
  BY <1>1, StoreInvariant, PTL

\* Every package in the library is finished and fits its primary reference, whatever builds,
\* imports, promotions, deletions and crashes interleave.
THEOREM SoundLibrary == Spec => []LibraryIsSound
<1>1. StoreInv => LibraryIsSound
  BY DEF StoreInv
<1> QED
  BY <1>1, StoreInvariant, PTL

\* A promotion whose package nobody touched writes conditioning for the reference it puts first.
THEOREM SteadyPromotion == Spec => []PromotionsAgree
<1>1. StoreInv => PromotionsAgree
  BY DEF StoreInv, RequestInv, PromotionsAgree
<1> QED
  BY <1>1, StoreInvariant, PTL

\* The default marker leads nowhere only for a voice whose deletion crossed its own activation or
\* was cut short.
THEOREM InstalledDefault == Spec => []DefaultIsInstalled
<1>1. StoreInv => DefaultIsInstalled
  BY DEF StoreInv
<1> QED
  BY <1>1, StoreInvariant, PTL

-----------------------------------------------------------------------------
(* Reference clips *)

\* What no step of another request changes: it may only learn that the package it promotes
\* was replaced.
Same(u) ==
  /\ thread'[u].pc = thread[u].pc /\ thread'[u].pkg = thread[u].pkg
  /\ thread'[u].dir = thread[u].dir /\ thread'[u].name = thread[u].name

LEMMA OthersStay ==
  ASSUME StoreInv, NEW t \in Threads, Step(t), NEW u \in Threads \ {t}
  PROVE  Same(u)
<1>1. thread \in [Threads -> Requests] /\ thread[u] \in Requests
  BY DEF StoreInv, TypeOK
<1>2. \A n : Unsteady(n)[u] \in {thread[u], [thread[u] EXCEPT !.steady = FALSE]}
  BY DEF Unsteady
<1>3. thread'[u] \in {thread[u], [thread[u] EXCEPT !.steady = FALSE]}
  <2>1. CASE \/ \E n \in Names : BeginBuild(t, n) \/ BeginInstall(t, n) \/ BeginDelete(t, n)
             \/ \E n \in Names, i \in Asked : BeginPromote(t, n, i)
             \/ \E n \in Names, v \in Voices \ Recorded : BeginImport(t, n, v)
             \/ \E v \in Recorded : Artifacts(t, v)
    BY <1>1, <2>1
       DEF BeginBuild, BeginInstall, BeginDelete, BeginPromote, BeginImport, Artifacts
  <2>2. CASE \/ Clear(t) \/ Open(t) \/ Fill(t) \/ Check(t) \/ Cleanup(t)
             \/ Extract(t) \/ Identify(t) \/ Rebuild(t) \/ Copy(t)
    BY <1>1, <2>2 DEF Clear, Open, Fill, Check, Cleanup, Extract, Identify, Rebuild, Copy, Goto,
                          End
  <2>3. CASE \/ Mark(t) \/ Commit(t) \/ Confirm(t) \/ Shelve(t) \/ UnlinkLibrary(t)
             \/ Compare(t) \/ Unmark(t) \/ Fail(t)
    BY <1>1, <2>3
       DEF Mark, Commit, Confirm, Shelve, UnlinkLibrary, Compare, Unmark, Fail, Goto, End
  <2>4. CASE Place(t) \/ UnlinkModelRig(t)
    <3>1. PICK n \in Names \cup {None} : \E r : thread' = [Unsteady(n) EXCEPT ![t] = r]
      BY <1>1, <2>4 DEF Place, UnlinkModelRig, Requests
    <3> QED
      BY <1>2, <3>1
  <2>5. CASE Swap(t)
    <3>1. PICK F \in {thread, Unsteady(thread[t].name)} : \E r : thread' = [F EXCEPT ![t] = r]
      <4>1. CASE thread' = [thread EXCEPT ![t].pc = "cleanup", ![t].ok = FALSE]
        BY <4>1
      <4>2. CASE thread' = [thread EXCEPT ![t].pc = "cleanup", ![t].pkg = NoPackage]
        BY <4>2
      <4>3. CASE thread' = [Unsteady(thread[t].name) EXCEPT ![t].pc = "cleanup",
                                                            ![t].pkg = NoPackage]
        BY <4>3
      <4> QED
        BY <2>5, <4>1, <4>2, <4>3 DEF Swap
    <3>2. DOMAIN F = Threads
      BY <1>1 DEF Unsteady
    <3> QED
      BY <1>2, <3>1, <3>2
  <2> QED
    BY <2>1, <2>2, <2>3, <2>4, <2>5 DEF Step
<1> QED
  BY <1>1, <1>3 DEF Requests, Same

\* A package that is in directory d, or on its way there, has the clips some voice was built
\* with: in the library those of the voice it names.
Stored(d, p) ==
  /\ \E v \in Voices : ClipsOf(p, v)
  /\ d = "library" => ClipsOf(p, p.voice)

\* Where a request is going to put what it holds.
Destination(r) ==
  CASE r.pc = "place" -> "modelrig" [] r.pc = "shelve" -> "library" [] OTHER -> r.dir

KeptInv ==
  /\ \A d \in Dirs, n \in Names :
       /\ Exists(shelf[d][n]) => Stored(d, shelf[d][n].pkg)
       /\ Exists(temp[d][n]) => Stored(d, temp[d][n].pkg)
  /\ \A t \in Threads :
       thread[t].pkg # NoPackage => Stored(Destination(thread[t]), thread[t].pkg)

\* A new package has its voice's clips in the order of the voice.
LEMMA FreshClips ==
  ASSUME NEW v \in Voices, NEW d \in Dirs
  PROVE  Stored(d, Fresh(v))
<1>1. Fresh(v).refs = RefsOf[v] /\ Fresh(v).voice = v
  BY DEF Fresh
<1>2. ClipsOf(Fresh(v), v)
  BY <1>1 DEF ClipsOf
<1> QED
  BY <1>1, <1>2 DEF Stored

\* Reordering the clips of a package loses none: the one under the index comes first, those
\* before it move back by one.
LEMMA PromotedClips ==
  ASSUME NEW p \in Packages, NEW i \in 1..Len(p.refs), NEW ref, NEW v \in Voices, ClipsOf(p, v)
  PROVE  ClipsOf(Promoted(p, i, ref), v)
<1> DEFINE q == Promoted(p, i, ref)
           n == Len(p.refs)
<1>1. n \in Nat \ {0} /\ p.refs \in Seq(References)
  BY PackageExists
<1>2. q.refs = [j \in 1..n |-> IF j = 1 THEN p.refs[i]
                               ELSE IF j <= i THEN p.refs[j - 1] ELSE p.refs[j]]
  BY DEF Promoted
<1>3. q.refs \in [1..n -> References]
  BY <1>1, <1>2
<1>4. Len(q.refs) = n
  BY <1>1, <1>3
<1>5. ASSUME NEW j \in 1..n PROVE \E k \in 1..n : q.refs[k] = p.refs[j]
  <2>1. CASE j = i
    BY <1>1, <1>2, <2>1
  <2>2. CASE j < i
    <3>1. j + 1 \in 1..n /\ j + 1 # 1 /\ j + 1 <= i /\ (j + 1) - 1 = j
      BY <1>1, <2>2
    <3> QED
      BY <1>2, <3>1
  <2>3. CASE j > i
    BY <1>1, <1>2, <2>3
  <2> QED
    BY <1>1, <2>1, <2>2, <2>3
<1> QED
  BY <1>4, <1>5 DEF ClipsOf

\* A step that puts nothing new into the two directories, whose request now holds what it held
\* for the same place, nothing, or what may be stored where it is going.
LEMMA KeptQuiet ==
  ASSUME StoreInv, KeptInv, NEW t \in Threads, Step(t),
         \A d \in Dirs, n \in Names :
           /\ Exists(shelf'[d][n]) => Stored(d, shelf'[d][n].pkg)
           /\ Exists(temp'[d][n]) => Stored(d, temp'[d][n].pkg),
         thread'[t].pkg # NoPackage => Stored(Destination(thread'[t]), thread'[t].pkg)
  PROVE  KeptInv'
<1>1. \A u \in Threads \ {t} : Same(u)
  BY OthersStay
<1>2. ASSUME NEW u \in Threads, thread'[u].pkg # NoPackage
      PROVE  Stored(Destination(thread'[u]), thread'[u].pkg)
  BY <1>1, <1>2 DEF KeptInv, Same, Destination
<1> QED
  BY <1>2 DEF KeptInv, Exists, Stored, ClipsOf

\* Requests that begin, wait or install hold nothing yet.
LEMMA EmptyHanded ==
  /\ Idle \in Requests /\ Idle.pkg = NoPackage /\ Idle.dir \in Dirs
  /\ \A d \in Dirs, n \in Names : Installing(d, n).pkg = NoPackage
<1>1. Idle \in Requests /\ Idle.pkg = NoPackage /\ Idle.dir \in Dirs
  BY IdleRequest DEF Idle, Dirs
<1> QED
  BY <1>1 DEF Installing, Requests

LEMMA KeptNext ==
  ASSUME StoreInv, KeptInv, [Next]_vars
  PROVE  KeptInv'
<1> USE FileTypes
<1>1. CASE UNCHANGED vars
  BY <1>1 DEF KeptInv, Stored, ClipsOf, Destination, vars, files, Exists
<1>2. CASE Crash
  <2>1. /\ \A d \in Dirs, n \in Names :
             shelf'[d][n].pkg = shelf[d][n].pkg /\ temp'[d][n].pkg = temp[d][n].pkg
        /\ \A t \in Threads : thread'[t].pkg = NoPackage
    BY <1>2, AbandonKeeps, EmptyHanded DEF Crash
  <2>2. \A d \in Dirs, n \in Names :
          /\ Exists(shelf'[d][n]) => Stored(d, shelf'[d][n].pkg)
          /\ Exists(temp'[d][n]) => Stored(d, temp'[d][n].pkg)
    BY <2>1 DEF KeptInv, Exists
  <2> QED
    BY <2>1, <2>2 DEF KeptInv, Stored, ClipsOf, Exists
<1>3. ASSUME NEW t \in Threads, Step(t) PROVE KeptInv'
  <2> DEFINE me == thread[t]
  <2>1. thread \in [Threads -> Requests] /\ me \in Requests /\ RequestInv(t)
    BY DEF StoreInv, TypeOK
  <2>2. me.pkg # NoPackage => Stored(Destination(me), me.pkg)
    BY DEF KeptInv
  <2>3. CASE UNCHANGED <<shelf, temp>> /\ thread'[t].pkg = NoPackage
    BY <1>3, <2>3, KeptQuiet DEF KeptInv
  <2>18. CASE Clear(t)
    <3>1. \A d \in Dirs, n \in Names : temp'[d][n] \in {temp[d][n], NoFile}
      BY <2>1, <2>18 DEF Clear, StoreInv, TypeOK
    <3>2. /\ thread'[t].pkg = me.pkg /\ Destination(thread'[t]) = Destination(me)
          /\ shelf' = shelf
      BY <2>1, <2>18 DEF Clear, Goto, Requests, Destination
    <3> QED
      BY <1>3, <2>2, <3>1, <3>2, KeptQuiet DEF KeptInv
  <2>4. CASE Open(t)
    <3>1. me.pc = "open" /\ Destination(me) = me.dir /\ me.pkg # NoPackage
      BY <2>1, <2>4 DEF Open, Destination, RequestInv
    <3>2. \A d \in Dirs, n \in Names :
            \/ temp'[d][n] = temp[d][n]
            \/ d = me.dir /\ temp'[d][n].pkg = me.pkg
      <4>1. PICK by : temp' = [temp EXCEPT ![me.dir][me.name] = File(me.pkg, by)]
        BY <2>4 DEF Open
      <4> QED
        BY <2>1, <4>1 DEF StoreInv, TypeOK, File
    <3>3. thread'[t].pkg = me.pkg /\ Destination(thread'[t]) = me.dir /\ shelf' = shelf
      BY <2>1, <2>4 DEF Open, Goto, Requests, Destination
    <3> QED
      BY <1>3, <2>2, <3>1, <3>2, <3>3, KeptQuiet DEF KeptInv
  <2>5. CASE Fill(t)
    <3>1. /\ \A d \in Dirs, n \in Names : shelf'[d][n].pkg = shelf[d][n].pkg
          /\ \A d \in Dirs, n \in Names : temp'[d][n].pkg = temp[d][n].pkg
      BY <2>5 DEF Fill, File
    <3>2. thread'[t].pkg = me.pkg /\ Destination(thread'[t]) = Destination(me)
      BY <2>1, <2>5 DEF Fill, Goto, Requests, Destination
    <3> QED
      BY <1>3, <2>2, <3>1, <3>2, KeptQuiet DEF KeptInv, Exists
  <2>6. CASE Check(t)
    <3>1. thread'[t].pkg = me.pkg /\ Destination(thread'[t]) = Destination(me)
      BY <2>1, <2>6 DEF Check, Goto, Requests, Destination
    <3> QED
      BY <1>3, <2>2, <2>6, <3>1, KeptQuiet DEF KeptInv, Check, files
  <2>7. CASE Swap(t)
    <3>1. me.pc = "swap" /\ Destination(me) = me.dir
      BY <2>1, <2>7 DEF Swap, Destination
    <3>2. /\ thread'[t].pkg \in {me.pkg, NoPackage}
          /\ thread'[t].pkg = me.pkg /\ me.pkg # NoPackage => Destination(thread'[t]) = me.dir
      <4>1. CASE thread' = [thread EXCEPT ![t].pc = "cleanup", ![t].ok = FALSE]
        BY <2>1, <4>1 DEF Requests, Destination
      <4>2. CASE thread' = [thread EXCEPT ![t].pc = "cleanup", ![t].pkg = NoPackage]
        BY <2>1, <4>2 DEF Requests
      <4>3. CASE thread' = [Unsteady(me.name) EXCEPT ![t].pc = "cleanup", ![t].pkg = NoPackage]
        BY <2>1, <4>3 DEF Requests, Unsteady
      <4> QED
        BY <2>7, <4>1, <4>2, <4>3 DEF Swap
    <3>3. \A d \in Dirs, n \in Names :
            /\ shelf'[d][n] \in {shelf[d][n], temp[d][n]}
            /\ temp'[d][n] \in {temp[d][n], NoFile}
      <4>1. /\ shelf \in [Dirs -> [Names -> FilesOf(Packages)]]
            /\ temp \in [Dirs -> [Names -> FilesOf(Packages)]]
        BY DEF StoreInv, TypeOK
      <4>2. CASE UNCHANGED <<shelf, temp>>
        BY <4>2
      <4>3. CASE /\ shelf' = [shelf EXCEPT ![me.dir][me.name] = temp[me.dir][me.name]]
                 /\ temp' = [temp EXCEPT ![me.dir][me.name] = NoFile]
        BY <4>1, <4>3
      <4> QED
        BY <2>7, <4>2, <4>3 DEF Swap
    <3> QED
      BY <1>3, <2>2, <3>1, <3>2, <3>3, KeptQuiet DEF KeptInv
  <2>8. CASE Cleanup(t)
    <3>1. \A d \in Dirs, n \in Names : temp'[d][n] \in {temp[d][n], NoFile}
      BY <2>1, <2>8 DEF Cleanup, StoreInv, TypeOK
    <3>2. shelf' = shelf /\ thread'[t].pkg = NoPackage
      BY <2>1, <2>8, Writer, EmptyHanded DEF Cleanup, End, Writing, Dirs
    <3> QED
      BY <1>3, <3>1, <3>2, KeptQuiet DEF KeptInv
  <2>9. CASE Fail(t)
    <3>1. /\ \A d \in Dirs, n \in Names : shelf'[d][n].pkg = shelf[d][n].pkg
          /\ \A d \in Dirs, n \in Names : temp'[d][n].pkg = temp[d][n].pkg
      BY <2>9 DEF Fail, Abandon, Orphaned, File
    <3>2. \/ thread'[t].pkg = NoPackage
          \/ /\ me.pc \in Writing
             /\ thread'[t].pkg = me.pkg /\ Destination(thread'[t]) = Destination(me)
      BY <2>1, <2>9 DEF Fail, End, Idle, Requests, Destination, Writing
    <3> QED
      BY <1>3, <2>2, <3>1, <3>2, KeptQuiet DEF KeptInv, Exists
  <2>10. ASSUME NEW v \in Voices,
                Artifacts(t, v) \/ \E n \in Names : BeginImport(t, n, v)
         PROVE  KeptInv'
    <3>1. /\ UNCHANGED <<shelf, temp>> /\ thread'[t].pkg = Fresh(v)
          /\ Destination(thread'[t]) \in Dirs
      <4>1. CASE Artifacts(t, v)
        BY <2>1, <4>1 DEF Artifacts, Requests, Destination, files
      <4>2. CASE \E n \in Names : BeginImport(t, n, v)
        <5>1. PICK target : thread' = [thread EXCEPT ![t] =
                [Idle EXCEPT !.pc = "shelve", !.kind = "import", !.name = target, !.pkg = Fresh(v)]]
          BY <4>2 DEF BeginImport
        <5>2. thread'[t].pkg = Fresh(v) /\ thread'[t].pc = "shelve"
          BY <2>1, <5>1, EmptyHanded DEF Requests
        <5> QED
          BY <4>2, <5>2 DEF BeginImport, Destination, Dirs, files
      <4> QED
        BY <2>10, <4>1, <4>2
    <3> QED
      BY <1>3, <3>1, FreshClips, KeptQuiet DEF KeptInv
  <2>11. CASE Rebuild(t)
    <3> DEFINE f == shelf["modelrig"][me.name]
               source == [f.pkg EXCEPT !.voice = me.voice]
    <3>1. CASE ~(Whole(f) /\ me.index <= Len(f.pkg.refs))
      BY <2>1, <2>3, <2>11, <3>1 DEF Rebuild, End, Idle, files
    <3>2. CASE Whole(f) /\ me.index <= Len(f.pkg.refs)
      <4>1. /\ me.name \in Names /\ me.voice \in Voices /\ me.index \in Asked
            /\ me.dir = "modelrig"
        BY <2>1, <2>11 DEF Rebuild, RequestInv, Rebuilding
      <4>2. f \in FilesOf(Packages) /\ Exists(f) /\ f.pkg \in Packages
        BY <3>2, <4>1 DEF StoreInv, TypeOK, Dirs, Whole
      <4>3. PICK v \in Voices : ClipsOf(f.pkg, v)
        BY <4>1, <4>2 DEF KeptInv, Stored, Dirs
      <4>4. source \in Packages /\ source.refs = f.pkg.refs
        BY <4>1, <4>2 DEF Packages
      <4>5. me.index \in 1..Len(source.refs) /\ ClipsOf(source, v)
        <5>2. me.index \in 1..Len(f.pkg.refs)
          BY <3>2, <4>1, <4>2, AskedReference
        <5> HIDE DEF source, f
        <5>3. ClipsOf(source, v)
          BY <4>3, <4>4 DEF ClipsOf
        <5> QED
          BY <4>4, <5>2, <5>3
      <4>6. ClipsOf(Promoted(source, me.index, me.from), v)
        BY <4>4, <4>5, PromotedClips
      <4>7. /\ UNCHANGED <<shelf, temp>>
            /\ thread'[t].pkg = Promoted(source, me.index, me.from)
            /\ Destination(thread'[t]) = "modelrig"
        BY <2>1, <2>11, <3>2, <4>1 DEF Rebuild, Requests, Destination, files
      <4> QED
        BY <1>3, <4>6, <4>7, KeptQuiet DEF KeptInv, Stored
    <3> QED
      BY <3>1, <3>2
  <2>12. CASE Copy(t)
    <3> DEFINE f == shelf[me.dir][me.name]
    <3>1. UNCHANGED <<shelf, temp>> /\ me.name \in Names /\ me.dir \in Dirs
      BY <2>1, <2>12 DEF Copy, files, RequestInv, Requests
    <3>2. \/ thread'[t].pkg = NoPackage
          \/ Exists(f) /\ thread'[t].pkg = f.pkg /\ Destination(thread'[t]) = "modelrig"
      BY <2>1, <2>12 DEF Copy, End, Idle, Requests, Destination
    <3> QED
      BY <1>3, <3>1, <3>2, KeptQuiet DEF KeptInv, Stored
  <2>13. CASE Place(t)
    <3>1. Destination(me) = "modelrig" /\ me.pkg # NoPackage /\ temp' = temp
      BY <2>1, <2>13 DEF Place, Destination, RequestInv
    <3>2. \A d \in Dirs, n \in Names :
            \/ shelf'[d][n] = shelf[d][n]
            \/ d = "modelrig" /\ shelf'[d][n].pkg = me.pkg
      BY <2>1, <2>13 DEF Place, StoreInv, TypeOK, File
    <3>3. thread'[t].pkg = NoPackage
      BY <2>1, <2>13 DEF Place, Unsteady, Requests
    <3> QED
      BY <1>3, <2>2, <3>1, <3>2, <3>3, KeptQuiet DEF KeptInv
  <2>14. CASE Shelve(t)
    <3>1. Destination(me) = "library" /\ me.pkg # NoPackage /\ temp' = temp
      BY <2>1, <2>14 DEF Shelve, Destination, RequestInv
    <3>2. \A d \in Dirs, n \in Names :
            \/ shelf'[d][n] = shelf[d][n]
            \/ d = "library" /\ shelf'[d][n].pkg = me.pkg
      BY <2>1, <2>14 DEF Shelve, StoreInv, TypeOK, File
    <3>3. thread'[t].pkg = NoPackage
      <4>1. me.name \in Names
        BY <2>1, <2>14 DEF Shelve, RequestInv
      <4> QED
        BY <2>1, <2>14, <4>1, EmptyHanded DEF Shelve, End, Dirs
    <3> QED
      BY <1>3, <2>2, <3>1, <3>2, <3>3, KeptQuiet DEF KeptInv
  <2>15. CASE UnlinkLibrary(t) \/ UnlinkModelRig(t)
    <3>1. \A d \in Dirs, n \in Names : shelf'[d][n] \in {shelf[d][n], NoFile}
      <4>1. shelf \in [Dirs -> [Names -> FilesOf(Packages)]]
        BY DEF StoreInv, TypeOK
      <4> QED
        BY <2>15, <4>1 DEF UnlinkLibrary, UnlinkModelRig, Dirs
    <3>2. /\ thread'[t].pkg = me.pkg /\ temp' = temp
          /\ Destination(thread'[t]) = Destination(me)
      BY <2>1, <2>15 DEF UnlinkLibrary, UnlinkModelRig, Unsteady, Requests, Destination
    <3> QED
      BY <1>3, <2>2, <3>1, <3>2, KeptQuiet DEF KeptInv
  <2>16. CASE Extract(t) \/ Identify(t) \/ Mark(t) \/ Commit(t) \/ Compare(t)
    <3>1. UNCHANGED <<shelf, temp>>
      BY <2>16 DEF Extract, Identify, Mark, Commit, Compare, files
    <3>2. \/ thread'[t].pkg = NoPackage
          \/ thread'[t].pkg = me.pkg /\ Destination(thread'[t]) = Destination(me)
      BY <2>1, <2>16
         DEF Extract, Identify, Mark, Commit, Compare, Goto, End, Idle, Requests, Destination
    <3> QED
      BY <1>3, <2>2, <3>1, <3>2, KeptQuiet DEF KeptInv
  <2>17. CASE \/ \E n \in Names : BeginBuild(t, n) \/ BeginInstall(t, n) \/ BeginDelete(t, n)
              \/ \E n \in Names, i \in Asked : BeginPromote(t, n, i)
              \/ Confirm(t) \/ Unmark(t)
    <3>1. UNCHANGED <<shelf, temp>>
      BY <2>17
         DEF BeginBuild, BeginInstall, BeginDelete, BeginPromote, Confirm, Unmark, files
    <3>2. CASE \E n \in Names : BeginInstall(t, n)
      BY <2>1, <2>3, <3>1, <3>2, EmptyHanded DEF BeginInstall, Dirs
    <3>3. CASE \/ \E n \in Names : BeginBuild(t, n) \/ BeginDelete(t, n)
               \/ \E n \in Names, i \in Asked : BeginPromote(t, n, i)
               \/ Confirm(t) \/ Unmark(t)
      <4>1. CASE \E n \in Names : BeginBuild(t, n)
        BY <2>1, <2>3, <3>1, <4>1, EmptyHanded DEF BeginBuild, Requests
      <4>2. CASE \E n \in Names : BeginDelete(t, n)
        BY <2>1, <2>3, <3>1, <4>2, EmptyHanded DEF BeginDelete, Requests
      <4>3. CASE \E n \in Names, i \in Asked : BeginPromote(t, n, i)
        BY <2>1, <2>3, <3>1, <4>3, EmptyHanded DEF BeginPromote, Requests
      <4>4. CASE Confirm(t) \/ Unmark(t)
        BY <2>1, <2>3, <3>1, <4>4, EmptyHanded DEF Confirm, Unmark, End
      <4> QED
        BY <3>3, <4>1, <4>2, <4>3, <4>4
    <3> QED
      BY <2>17, <3>2, <3>3
  <2> QED
    BY <1>3, <2>4, <2>5, <2>6, <2>7, <2>8, <2>9, <2>10, <2>11, <2>12, <2>13, <2>14, <2>15, <2>16,
       <2>17, <2>18, StoreAssumption DEF Step
<1> QED
  BY <1>1, <1>2, <1>3 DEF Next

\* Promotions, installations, imports and failures, in any interleaving, only reorder the clips
\* of a package: none is lost, doubled or taken from another voice.
THEOREM ClipsKept == Spec => []ReferencesKept
<1>1. Init => KeptInv
  BY FileTypes DEF Init, KeptInv, Idle
<1>2. StoreInv /\ KeptInv /\ [Next]_vars => KeptInv'
  BY KeptNext
<1>3. KeptInv => ReferencesKept
  BY DEF KeptInv, ReferencesKept, Stored, Dirs
<1> QED
  BY <1>1, <1>2, <1>3, StoreInvariant, PTL DEF Spec
=============================================================================
