------------------------------- MODULE Library -------------------------------
(***************************************************************************)
(* The definitions a workspace runs: one worker's files in workflow        *)
(* directories, saved in versions through the server, bundled, unpacked    *)
(* as a template, and registered afresh by every launch                    *)
(* (core/server/server.go, core/registry, cli/internal/runner).            *)
(***************************************************************************)
EXTENDS Integers, FiniteSets, SequencesExt

CONSTANTS Dirs,      \* workflow directories
          Imports,   \* the directory a template is unpacked into
          Bodies,    \* what a worker says: goal, contract, model
          Savers,    \* concurrent save requests
          Scenarios, \* first files and pins, what may happen and how often
          Nobody     \* no body, no request

Kinds == {"save", "edit", "export", "import", "launch", "node", "clear",
          "open", "settings", "restart"}

ASSUME ImportsAssumption == Imports \in Dirs /\ Nobody \notin Dirs \cup Bodies

VARIABLES menu,      \* the bodies, inputs, outputs and modes on offer
          left,      \* how often each operation may still happen
          dirs,      \* the worker files of each directory, by name
          pins,      \* the worker version its workflow.yaml names
          saving,    \* save requests between their scan and their write
          template,  \* the bundle in the templates directory
          importing, \* an import between its reads and its writes
          past       \* the bodies each version ever had; what excuses a change

libVars == <<menu, dirs, pins, saving, template, importing, past>>

(* The parts of a version; each has one digit, so that the order of two    *)
(* texts is that of their parts.  The bound: no save mints the tenth patch. *)
Digit == 0..9
Versions == [major : Digit, minor : Digit, patch : Digit, pre : {"none", "beta"}]
Version(a, b, c) == [major |-> a, minor |-> b, patch |-> c, pre |-> "none"]
First == Version(1, 0, 0)
Parsed(v) == v.pre = "none"
SemverLess(a, b) ==
  \/ a.major < b.major
  \/ a.major = b.major /\ a.minor < b.minor
  \/ a.major = b.major /\ a.minor = b.minor /\ a.patch < b.patch
  \/ a = [b EXCEPT !.pre = "none"] /\ b.pre # "none"

\* "id.worker.yaml", beside the "id@version.worker.yaml" a save writes.
Plain == <<>>
Def(v, b) == [version |-> v, body |-> b]
NoDef == Def(First, Nobody)
NotSaving == [dir |-> Nobody, def |-> NoDef]
NotImporting == [step |-> 0, def |-> NoDef]

\* The files at hand when a workspace is new: a registry takes those of one
\* directory, and nothing is unpacked yet.
ASSUME ScenariosAssumption ==
  \A s \in Scenarios :
    /\ s.left \in [Kinds -> Nat] /\ s.menu.bodies \subseteq Bodies
    /\ s.pins \in [Dirs -> Versions] /\ DOMAIN s.dirs = Dirs
    /\ \A d \in Dirs :
         /\ DOMAIN s.dirs[d] \subseteq Versions \cup {Plain}
         /\ \A f \in DOMAIN s.dirs[d] : s.dirs[d][f] \in [version : Versions, body : Bodies]
         /\ \A f, g \in DOMAIN s.dirs[d] :
              s.dirs[d][f].version = s.dirs[d][g].version => s.dirs[d][f] = s.dirs[d][g]
    /\ DOMAIN s.dirs[Imports] = {}

Files(d) == { dirs[d][f] : f \in DOMAIN dirs[d] }
ScanVersions(d) == { w.version : w \in Files(d) }

Oldest(vs) == CHOOSE v \in vs : \A u \in vs : ~SemverLess(u, v)    \* mutant
Latest(vs) == CHOOSE v \in vs : \A u \in vs : ~SemverLess(v, u)

NextPatch(vs) ==
  IF vs = {} \/ ~Parsed(Latest(vs)) THEN First
  ELSE LET v == Latest(vs) IN Version(v.major, v.minor, v.patch + 1)

LibInit(s) ==
  /\ menu = s.menu /\ left = s.left /\ dirs = s.dirs /\ pins = s.pins
  /\ saving = [r \in Savers |-> NotSaving]
  /\ template = NoDef /\ importing = NotImporting
  /\ past = [bodies |-> UNION { Files(d) : d \in Dirs },
             minted |-> { d \in Dirs : Files(d) # {} }, overlapped |-> FALSE, unparsed |-> FALSE]

Spend(kind) == left[kind] > 0 /\ left' = [left EXCEPT ![kind] = @ - 1]

\* handleSaveWorker: scan, then write; no lock between the two.
SaveScan(r, d, b) ==
  LET vs == ScanVersions(d)
  IN  /\ Spend("save") /\ saving[r].dir = Nobody /\ NextPatch(vs) \in Versions
      /\ saving' = [saving EXCEPT ![r] = [dir |-> d, def |-> Def(NextPatch(vs), b)]]
      /\ past' = [past EXCEPT
           !.overlapped = @ \/ \E q \in Savers : saving[q].dir = d,
           !.unparsed = @ \/ (vs # {} /\ ~Parsed(Latest(vs))),
           !.minted = @ \cup {d}]
      /\ UNCHANGED <<menu, dirs, pins, template, importing>>

WithFile(d, name, w) ==
  [dirs EXCEPT ![d] = [f \in DOMAIN @ \cup {name} |-> IF f = name THEN w ELSE @[f]]]

SaveWrite(r) ==
  LET w == saving[r].def
  IN  /\ saving[r].dir # Nobody
      /\ dirs' = WithFile(saving[r].dir, w.version, w)
      /\ saving' = [saving EXCEPT ![r] = NotSaving]
      /\ past' = [past EXCEPT !.bodies = @ \cup {w}]
      /\ UNCHANGED <<menu, left, pins, template, importing>>

\* The person names another version in workflow.yaml.
EditWorkflow(d, v) ==
  /\ Spend("edit") /\ v \in ScanVersions(d)
  /\ pins' = [pins EXCEPT ![d] = v]
  /\ UNCHANGED <<menu, dirs, saving, template, importing, past>>

(* A registry: every file of the directory, one body for a version.        *)
Conflict(d) == \E w, x \in Files(d) : w.version = x.version /\ w.body # x.body
Registry(d) == IF Conflict(d) THEN {} ELSE Files(d)
Registered(d) == { w \in Registry(d) : w.version = pins[d] }

\* wee export: the workflow and the workers it names, or nothing.
Export(d) ==
  /\ Spend("export")
  /\ \E w \in Registered(d) : template' = w
  /\ UNCHANGED <<menu, dirs, pins, saving, importing, past>>

\* handleImportTemplate: workflow.yaml, then the worker's plain file.
BeginImport ==
  /\ Spend("import") /\ template.body # Nobody /\ importing.step = 0
  /\ importing' = [step |-> 1, def |-> template]
  /\ pins' = [pins EXCEPT ![Imports] = template.version]
  /\ UNCHANGED <<menu, dirs, saving, template, past>>

EndImport ==
  /\ importing.step = 1
  /\ importing' = NotImporting
  /\ dirs' = WithFile(Imports, Plain, importing.def)
  /\ past' = [past EXCEPT !.bodies = @ \cup {importing.def}]
  /\ UNCHANGED <<menu, left, pins, saving, template>>

LibNext ==
  \/ \E r \in Savers, d \in Dirs, b \in menu.bodies : SaveScan(r, d, b)
  \/ \E r \in Savers : SaveWrite(r)
  \/ \E d \in Dirs : Export(d) \/ \E v \in ScanVersions(d) : EditWorkflow(d, v)
  \/ BeginImport \/ EndImport

\* The bodies a version ever had, and what lets it have a second one: two
\* saves at once, a pre-release as the latest, versions minted in two
\* directories.
BodiesOf(v) == { w.body : w \in { x \in past.bodies : x.version = v } }
Excused == past.overlapped \/ past.unparsed \/ \E d, e \in past.minted : d # e

=============================================================================
