---------------------------- MODULE ClientUpdates ----------------------------
(***************************************************************************)
(* What a browser is told of the workflow of ReportHistory: the page it    *)
(* loads (server/views/workflows.py), the updates it gets over Websockets  *)
(* for each command done, undone or redone (load_clientside_update() in    *)
(* models/commands/, clientside.py, serializers.py) and how it applies     *)
(* them (assets/js/reducers/applyUpdate.js).                               *)
(***************************************************************************)
EXTENDS ReportHistory

-----------------------------------------------------------------------------
(* What the server says.                                                   *)

(* What f says, and g where f says nothing. *)
Over(f, g) == [k \in DOMAIN f \cup DOMAIN g |-> IF k \in DOMAIN f THEN f[k] ELSE g[k]]

Ascending(S) ==
  [i \in 1 .. Cardinality(S) |-> CHOOSE s \in S : Cardinality({r \in S : r < s}) = i - 1]

StepIds(w, t) == Ascending({s \in w.steps : TabOf[s] = t})
Slugs(w)      == ByPosition(w.blocks)
Content(row)  == [type |-> row.type, of |-> row.of]
Contents(w, B) == [b \in B |-> Content(w.blocks[b])]

(* clientside.Update: nothing yet. *)
NoUpdate == [workflow |-> <<>>, tabs |-> <<>>, steps |-> {}, blocks |-> <<>>,
             clear_tabs |-> {}, clear_steps |-> {}, clear_blocks |-> {}]

ToClientside(w) ==
  [NoUpdate EXCEPT
     !.workflow = [order |-> w.order, custom |-> w.custom, list |-> Slugs(w)],
     !.tabs     = [t \in Range(w.order) |-> StepIds(w, t)],
     !.steps    = LiveSteps(w)]

(* make_init_state() has the blocks too. *)
Page(w) == [ToClientside(w) EXCEPT !.blocks = Contents(w, DOMAIN w.blocks)]

BlockList(u, w)   == [u EXCEPT !.workflow = Over([list |-> Slugs(w)], @)]
TabList(u, w)     == [u EXCEPT !.workflow = Over([order |-> w.order], @)]
IsCustom(u, b)    == [u EXCEPT !.workflow = Over([custom |-> b], @)]
WithBlocks(u, bs) == [u EXCEPT !.blocks = bs]
ClearBlocks(u, B) == [u EXCEPT !.clear_blocks = B]

(* All blocks are created, or deleted: those of the auto-report and, of    *)
(* AddBlock, the new one.                                                  *)
WholeReport(u, e, w) ==
  IF w.custom THEN WithBlocks(IsCustom(u, TRUE), Contents(w, DOMAIN w.blocks))
  ELSE ClearBlocks(IsCustom(u, FALSE),
                   {AutoSlug(s) : s \in e.before.steps} \cup ({e.slug} \ {None}))

OneBlock(u, b, w) ==
  IF b \in DOMAIN w.blocks THEN WithBlocks(u, Contents(w, {b})) ELSE ClearBlocks(u, {b})

(* Mutant: undo does not send the blocks again.                            *)
OldBlocksCleared(u, e, w) ==
  IF e.back = <<>> THEN u ELSE ClearBlocks(BlockList(u, w), DOMAIN e.back \ DOMAIN w.blocks)

(* The blocks that went with a step or a tab, or have come back with it.   *)
OldBlocks(u, e, w) ==
  IF e.back = <<>> THEN u
  ELSE IF DOMAIN e.back \subseteq DOMAIN w.blocks
       THEN WithBlocks(BlockList(u, w), [b \in DOMAIN e.back |-> Content(e.back[b])])
       ELSE ClearBlocks(BlockList(u, w), DOMAIN e.back)

OneStep(u, s, w) ==
  LET v == [u EXCEPT !.tabs = [t \in {TabOf[s]} |-> StepIds(w, t)]]
  IN  IF s \in w.steps THEN [v EXCEPT !.steps = {s}] ELSE [v EXCEPT !.clear_steps = {s}]

(* DeleteTab sends the tab when it comes back, and not its steps.          *)
OneTab(u, t, w) ==
  IF t \in Range(w.order) THEN [TabList(u, w) EXCEPT !.tabs = [r \in {t} |-> StepIds(w, r)]]
  ELSE [TabList(u, w) EXCEPT !.clear_tabs = {t}]

(* load_clientside_update() of each command, done, undone or redone: it    *)
(* reads the delta and the database as it is now.                          *)
UpdateOf(e, w) ==
  CASE e.command \in {"AddBlock", "DeleteBlock"} ->
         LET u == BlockList(NoUpdate, w)
         IN  IF e.wasAuto THEN WholeReport(u, e, w) ELSE OneBlock(u, e.slug, w)
    [] e.command = "ReorderBlocks" ->
         LET u == BlockList(NoUpdate, w) IN IF e.wasAuto THEN WholeReport(u, e, w) ELSE u
    [] e.command = "SetBlockMarkdown" -> WithBlocks(NoUpdate, Contents(w, {e.slug}))
    [] e.command = "AddStep"     -> OneStep(NoUpdate, e.of, w)
    [] e.command = "DeleteStep"  -> OldBlocks(OneStep(NoUpdate, e.of, w), e, w)
    [] e.command = "DeleteTab"   -> OldBlocks(OneTab(NoUpdate, e.of, w), e, w)
    [] e.command = "ReorderTabs" -> TabList(NoUpdate, w)

-----------------------------------------------------------------------------
(* What the browser does of it: applyUpdate.js. *)

Apply(c, u) ==
  [workflow |-> Over(u.workflow, c.workflow),
   steps    |-> (c.steps \cup u.steps) \ u.clear_steps,
   tabs     |-> Without(Over(u.tabs, c.tabs), u.clear_tabs),
   blocks   |-> Without(Over(u.blocks, c.blocks), u.clear_blocks)]

Blank == [workflow |-> <<>>, tabs |-> <<>>, steps |-> {}, blocks |-> <<>>]
=============================================================================
