--------------------------- MODULE ModuleVersions ---------------------------
(***************************************************************************)
(* The versions of one module, imported while the site runs                *)
(* (cjwstate/importmodule.py, module_registry.py), and what they make of   *)
(* the params of one step: migrate_params(), with its cache in the step's  *)
(* row (cjwstate/params.py).  Who reads the step holds its workflow's      *)
(* lock, but for server/views/embed.py.                                    *)
(*                                                                         *)
(* A version is never changed: no importer makes one that is named         *)
(* "develop".  Migrated params are the version and what they were made of. *)
(***************************************************************************)
EXTENDS Integers, SequencesExt

CONSTANTS Versions,    \* of the module, by the hash of their source
          Broken,      \* versions whose migrate_params() raises ModuleError
          MaxImports, MaxEdits  \* bounds

VARIABLES
  zips,     \* versions in S3
  rows,     \* versions in table "module_version", by last_update_time
  importer, \* what an administrator imports
  params,   \* step.params
  past,     \* what they were, for undo
  cached,   \* step.cached_migrated_params, with ..._module_version
  render,   \* _load_tab_flows()
  embed,    \* a view of an embedded chart
  lock,     \* who holds workflow.cooperative_lock()
  imports, edits,
  raced     \* did embed save what it had made of older params? (auxiliary)

vars == <<zips, rows, importer, params, past, cached, render, embed, lock, imports, edits, raced>>

None == 0
Idle == [pc |-> "idle"]
NotCached == [by |-> None, of |-> None]
Migrated(version, p) == [by |-> version, of |-> p]

(* MODULE_REGISTRY.latest(); no row is KeyError.  The registry's own cache *)
(* saves it a download and nothing else: each call asks the database.      *)
Latest == IF rows = <<>> THEN None ELSE Last(rows)

-----------------------------------------------------------------------------
(* import_zipfile(), of a version that is new or has been here before: the *)
(* file, and then the row, if the process lives.                           *)

PutZip(v) ==
  /\ importer = Idle /\ imports < MaxImports /\ imports' = imports + 1
  /\ importer' = [pc |-> "put", version |-> v] /\ zips' = zips \cup {v}
  /\ UNCHANGED <<rows, params, past, cached, render, embed, lock, edits, raced>>

(* The rows but the version's, if it has been imported before.             *)
Others(v) ==
  IF \E i \in DOMAIN rows : rows[i] = v
  THEN RemoveAt(rows, CHOOSE i \in DOMAIN rows : rows[i] = v) ELSE rows

SaveRow ==
  /\ importer # Idle /\ importer' = Idle
  /\ rows' = Append(Others(importer.version), importer.version)
  /\ UNCHANGED <<zips, params, past, cached, render, embed, lock, imports, edits, raced>>

ImportFails ==
  /\ importer # Idle /\ importer' = Idle
  /\ UNCHANGED <<zips, rows, params, past, cached, render, embed, lock, imports, edits, raced>>

-----------------------------------------------------------------------------
(* get_migrated_params(), of a row as it was read.                         *)
Result(version, row) ==
  IF version = None THEN NotCached
  ELSE IF row.cached.by = version THEN row.cached
  ELSE IF version \in Broken THEN NotCached   \* ModuleError
  ELSE Migrated(version, row.params)

IsStale(version, row) == version \notin Broken \cup {None} /\ row.cached.by # version

Row == [params |-> params, cached |-> cached]

-----------------------------------------------------------------------------
(* SetStepParams: the new values, on top of the migrated old ones.  The    *)
(* update for browsers migrates them in the same transaction.              *)

SetStepParams ==
  /\ lock = "free" /\ edits < MaxEdits /\ edits' = edits + 1
  /\ Latest \notin Broken \cup {None}
  /\ params' = edits + 2 /\ past' = Append(past, params)
  /\ cached' = Result(Latest, [params |-> params', cached |-> NotCached]) /\ raced' = FALSE
  /\ UNCHANGED <<zips, rows, importer, render, embed, lock, imports>>

Undo ==
  /\ lock = "free" /\ past # <<>> /\ Latest \notin Broken
  /\ params' = Last(past) /\ past' = Front(past)
  /\ cached' = Result(Latest, [params |-> params', cached |-> NotCached]) /\ raced' = FALSE
  /\ UNCHANGED <<zips, rows, importer, render, embed, lock, imports, edits>>

-----------------------------------------------------------------------------
(* The renderer: all_latest(), and then each step's params.                *)
LoadModules ==
  /\ render.pc # "loading" /\ lock = "free" /\ lock' = "render"
  /\ render' = [pc |-> "loading", version |-> Latest]
  /\ UNCHANGED <<zips, rows, importer, params, past, cached, embed, imports, edits, raced>>

(* Mutant: it looks the module up again, as DependencyGraph does. *)
LoadParamsOfLatest ==
  /\ render.pc = "loading" /\ lock' = "free"
  /\ render' = [pc |-> "loaded", version |-> render.version, params |-> Result(Latest, Row),
                of |-> params, raced |-> raced]
  /\ cached' = IF IsStale(Latest, Row) THEN Result(Latest, Row) ELSE cached
  /\ UNCHANGED <<zips, rows, importer, params, past, embed, imports, edits, raced>>

LoadParams ==
  /\ render.pc = "loading" /\ lock' = "free"
  /\ LET v == render.version IN
       /\ render' = [pc |-> "loaded", version |-> v, params |-> Result(v, Row),
                       of |-> params, raced |-> raced]
       /\ cached' = IF IsStale(v, Row) THEN Result(v, Row) ELSE cached
  /\ UNCHANGED <<zips, rows, importer, params, past, embed, imports, edits, raced>>

(* A page, an update or a fetch: the same in one step, under the lock.     *)
ReadParams ==
  /\ lock = "free" /\ IsStale(Latest, Row) /\ cached' = Result(Latest, Row)
  /\ UNCHANGED <<zips, rows, importer, params, past, render, embed, lock, imports, edits, raced>>

(* embed(): Step.objects.get(), ... *)
EmbedReads ==
  /\ embed = Idle /\ embed' = [pc |-> "read", row |-> Row]
  /\ UNCHANGED <<zips, rows, importer, params, past, cached, render, lock, imports, edits, raced>>

(* ... step.to_clientside(), and step.save() if it has migrated. *)
EmbedSaves ==
  /\ embed # Idle /\ embed' = Idle
  /\ IF IsStale(Latest, embed.row)
     THEN /\ cached' = Result(Latest, embed.row)
          /\ raced' = (embed.row.params # params)
     ELSE UNCHANGED <<cached, raced>>
  /\ UNCHANGED <<zips, rows, importer, params, past, render, lock, imports, edits>>

Init ==
  /\ zips = {} /\ rows = <<>> /\ importer = Idle
  /\ params = 1 /\ past = <<>> /\ cached = NotCached
  /\ render = Idle /\ embed = Idle /\ lock = "free"
  /\ imports = 0 /\ edits = 0 /\ raced = FALSE

Next ==
  \/ \E v \in Versions : PutZip(v)
  \/ SaveRow \/ ImportFails \/ SetStepParams \/ Undo
  \/ LoadModules \/ LoadParams \/ ReadParams \/ EmbedReads \/ EmbedSaves

Spec == Init /\ [][Next]_vars

-----------------------------------------------------------------------------
(* Properties.                                                             *)

(* A render runs a version whose file is there, with params that this very *)
(* version has migrated (or defaults), made of the step's params as they   *)
(* were when it loaded them, whatever was imported, set or undone around   *)
(* it, or died half-way; unless embed had put older ones in the cache.     *)
RenderedParamsFit ==
  render.pc = "loaded" =>
    /\ render.version \in zips \cup {None}
    /\ render.params # NotCached =>
         /\ render.params.by = render.version
         /\ render.raced \/ render.params.of = render.of

(* What is cached for the latest version is what it makes of the step's    *)
(* params, so that every page, fetch and render sees what the user set.    *)
CachedParamsAreOfTheParams ==
  (cached.by # None /\ ~raced) => cached.of = params
=============================================================================
