------------------------------- MODULE Boards -------------------------------
(***************************************************************************)
(* What the users of a project share: boards with ordered panels over      *)
(* saved queries, plain saved queries, and calculated fields.              *)
(*                                                                         *)
(* One write is one step (the core write queue runs them one by one), and  *)
(* a handler that checks before it writes is two.  The writer also builds  *)
(* its own board at startup (EnsureBoard), next to the requests.  Titles,  *)
(* time ranges, filters and the text of expressions are left out: a query  *)
(* is "plain" (no definition), or a board query over spans or a metric; an *)
(* expression is the set of fields it names.                               *)
(***************************************************************************)
EXTENDS Integers, Sequences, FiniteSets, SequencesExt

CONSTANTS
    BdReqs,       \* requests in flight
    MaxBoards,    \* bound: boards ever created
    MaxPanelIds,  \* bound: panels ever created
    MaxQueryIds,  \* bound: saved queries ever created
    PanelLimit,   \* maxPanels
    SelfPanels,   \* panels of the board EnsureBoard builds
    MaxBdEdits,   \* bound: requests that start
    MaxBdFaults,  \* bound: failed writes and restarts
    FieldNames,   \* names and identifiers of calculated fields
    MaxFieldIds,  \* bound: fields ever created
    FieldLimit    \* maxFieldsPerProject

ASSUME BoardAssumption ==
    /\ {MaxBoards, MaxPanelIds, MaxQueryIds, MaxBdEdits, MaxBdFaults, MaxFieldIds} \subseteq Nat
    /\ {PanelLimit, SelfPanels, FieldLimit} \subseteq Nat \ {0}
    /\ SelfPanels <= PanelLimit

VARIABLES
    bdMode,      \* bound: this run follows the "boards" or the "fields"
    bdProject,   \* the project exists
    boards,      \* the boards table: id -> name
    panels,      \* the board_panels table
    queries,     \* the saved_queries table: id -> kind of definition
    nextIds,     \* next board, panel and query id (AUTOINCREMENT)
    bdReq,       \* requests in flight, past their check
    ensure,      \* EnsureBoard at startup: step, board and panels added
    bdEdits,     \* requests started
    bdFaults,
    fields,      \* the calculated_fields table
    nextField,
    selfBoard,   \* history: the board EnsureBoard built
    selfEdited,  \* history: a user changed it
    cutShort,    \* history: a restart or failed delete left it half built
    plainKept,   \* history: plain queries nobody deleted
    fieldRace    \* history: a field write landed on a list it was not checked against

boardVars == <<boards, panels, queries, nextIds>>
fieldVars == <<fields, nextField, fieldRace>>
bdHistory == <<selfBoard, selfEdited, cutShort, plainKept>>
bdVars == <<bdMode, bdProject, boardVars, bdReq, ensure, bdEdits, bdFaults, fieldVars, bdHistory>>

BoardIds == 1..MaxBoards
PanelIds == 1..MaxPanelIds
QueryIds == 1..MaxQueryIds
FieldIds == 1..MaxFieldIds
NoPanel == [board |-> 0]
NoField == [name |-> "none"]
NoBdReq == [op |-> "idle"]
SelfName == "self"
BoardNames == {SelfName, "mine"}
BoardQueries == {"span", "metric"}
PanelViews == {"table", "chart", "metric"}

PanelsOf(b) == {i \in PanelIds : panels[i].board = b}

BdInit ==
    /\ bdMode \in {"boards", "fields"}
    /\ bdProject = TRUE
    /\ boards = [b \in BoardIds |-> "none"]
    /\ panels = [i \in PanelIds |-> NoPanel]
    /\ queries = [q \in QueryIds |-> "none"]
    /\ nextIds = [board |-> 1, panel |-> 1, query |-> 1]
    /\ bdReq = [r \in BdReqs |-> NoBdReq]
    /\ ensure = [step |-> "list"]
    /\ bdEdits = 0 /\ bdFaults = 0
    /\ fields = [i \in FieldIds |-> NoField] /\ nextField = 1
    /\ selfBoard = 0 /\ selfEdited = FALSE /\ cutShort = FALSE /\ plainKept = {} /\ fieldRace = FALSE

-----------------------------------------------------------------------------
(* Rows.                                                                   *)

\* INSERT INTO boards.
InsertBoard(name) ==
    /\ bdProject /\ nextIds.board <= MaxBoards
    /\ boards' = [boards EXCEPT ![nextIds.board] = name]
    /\ nextIds' = [nextIds EXCEPT !.board = @ + 1]
    /\ UNCHANGED <<panels, queries>>

\* Mutant: every query without a panel goes, plain trace filters too.
DeleteOrphanBoardQueries_All(ps) ==
    [q \in QueryIds |-> IF \E i \in PanelIds : ps[i].board # 0 /\ ps[i].query = q THEN queries[q] ELSE "none"]

\* deleteOrphanBoardQueries: drop board queries that no panel uses any more.
DeleteOrphanBoardQueries(ps) ==
    [q \in QueryIds |->
        IF queries[q] \in BoardQueries /\ ~\E i \in PanelIds : ps[i].board # 0 /\ ps[i].query = q
        THEN "none" ELSE queries[q]]

WithoutPanels(gone) == [i \in PanelIds |-> IF i \in gone THEN NoPanel ELSE panels[i]]

\* The DeleteBoard transaction: panels, the board, and the orphaned queries.
DeleteBoardRows(b) ==
    LET left == WithoutPanels(PanelsOf(b)) IN
    /\ panels' = left
    /\ boards' = [boards EXCEPT ![b] = "none"]
    /\ queries' = DeleteOrphanBoardQueries(left)
    /\ UNCHANGED nextIds

\* Mutant: the new panel's position is the number of panels.
NextPosition_Count(b) == Cardinality(PanelsOf(b))

\* COALESCE(MAX(position), -1) + 1.
NextPosition(b) == Max({-1} \cup {panels[i].position : i \in PanelsOf(b)}) + 1

\* The definition a panel of this view carries (validatePanelDefinition).
DefinitionFor(view) == IF view = "metric" THEN "metric" ELSE "span"

\* AddPanelWithQuery: the query and its panel in one transaction.
AddPanelRows(b, view) ==
    /\ nextIds.panel <= MaxPanelIds /\ nextIds.query <= MaxQueryIds
    /\ queries' = [queries EXCEPT ![nextIds.query] = DefinitionFor(view)]
    /\ panels' = [panels EXCEPT ![nextIds.panel] =
                    [board |-> b, query |-> nextIds.query, view |-> view, position |-> NextPosition(b)]]
    /\ nextIds' = [nextIds EXCEPT !.panel = @ + 1, !.query = @ + 1]
    /\ UNCHANGED boards

BdAnswer(r) == bdReq' = [bdReq EXCEPT ![r] = NoBdReq]
UserChanged(b) == selfEdited' = (selfEdited \/ b = selfBoard)
OtherBoardVars == <<bdMode, bdProject, bdFaults, fieldVars, ensure>>

-----------------------------------------------------------------------------
(* Board endpoints.                                                        *)

CreateBoard(name) ==
    /\ InsertBoard(name)
    /\ UserChanged(nextIds.board)
    /\ UNCHANGED <<OtherBoardVars, bdReq, selfBoard, cutShort, plainKept>>

UpdateBoard(b, name) ==
    /\ boards[b] \notin {"none", name}
    /\ boards' = [boards EXCEPT ![b] = name]
    /\ UserChanged(b)
    /\ UNCHANGED <<panels, queries, nextIds, OtherBoardVars, bdReq, selfBoard, cutShort, plainKept>>

DeleteBoard(b) ==
    /\ boards[b] # "none"
    /\ DeleteBoardRows(b)
    /\ UserChanged(b)
    /\ UNCHANGED <<OtherBoardVars, bdReq, selfBoard, cutShort, plainKept>>

\* AddPanel, first half: the board exists and has room.
AddPanelCheck(r, b, view) ==
    /\ bdReq[r] = NoBdReq
    /\ boards[b] # "none" /\ Cardinality(PanelsOf(b)) < PanelLimit
    /\ bdReq' = [bdReq EXCEPT ![r] = [op |-> "add", board |-> b, view |-> view]]
    /\ UNCHANGED <<boardVars, OtherBoardVars, bdHistory>>

\* AddPanel, second half.  A board deleted meanwhile is not found.
AddPanel(r) ==
    /\ bdReq[r].op = "add"
    /\ LET b == bdReq[r].board IN
       IF boards[b] = "none" THEN UNCHANGED <<boardVars, selfEdited>>
       ELSE AddPanelRows(b, bdReq[r].view) /\ UserChanged(b)
    /\ BdAnswer(r)
    /\ UNCHANGED <<OtherBoardVars, selfBoard, cutShort, plainKept>>

\* Mutant: any view may replace any other.
CheckViewSwitch_None(i, view) == TRUE

\* checkViewSwitch: a metric panel stays one, a span panel stays one.  A
\* panel that is not on the board passes; the update then finds no row.
CheckViewSwitch(i, view) ==
    panels[i] # NoPanel => ((panels[i].view = "metric") <=> (view = "metric"))

\* UpdatePanel, first half.
UpdatePanelCheck(r, i, view) ==
    /\ bdReq[r] = NoBdReq /\ panels[i] # NoPanel /\ panels[i].view # view
    /\ CheckViewSwitch(i, view)
    /\ bdReq' = [bdReq EXCEPT ![r] = [op |-> "update", panel |-> i, view |-> view]]
    /\ UNCHANGED <<boardVars, OtherBoardVars, bdHistory>>

\* UpdatePanel, second half.
UpdatePanel(r) ==
    /\ bdReq[r].op = "update"
    /\ LET i == bdReq[r].panel IN
       IF panels[i] = NoPanel THEN UNCHANGED <<panels, selfEdited>>
       ELSE panels' = [panels EXCEPT ![i].view = bdReq[r].view] /\ UserChanged(panels[i].board)
    /\ BdAnswer(r)
    /\ UNCHANGED <<boards, queries, nextIds, OtherBoardVars, selfBoard, cutShort, plainKept>>

\* Mutant: the panel goes and its query stays.
DeletePanelQueries_Kept(ps) == queries

\* DeletePanel also drops the queries it leaves without a panel.
DeletePanelQueries(ps) == DeleteOrphanBoardQueries(ps)

DeletePanel(i) ==
    /\ panels[i] # NoPanel
    /\ panels' = WithoutPanels({i})
    /\ queries' = DeletePanelQueries(WithoutPanels({i}))
    /\ UserChanged(panels[i].board)
    /\ UNCHANGED <<boards, nextIds, OtherBoardVars, bdReq, selfBoard, cutShort, plainKept>>

\* ReorderPanels: ids must be exactly the board's panels at the time of the
\* write; positions become 0, 1, ...
ReorderPanels(b, order) ==
    /\ boards[b] # "none" /\ Range(order) = PanelsOf(b)
    /\ panels' = [i \in PanelIds |->
                    IF i \in PanelsOf(b)
                    THEN [panels[i] EXCEPT !.position = (CHOOSE n \in DOMAIN order : order[n] = i) - 1]
                    ELSE panels[i]]
    /\ panels' # panels
    /\ UserChanged(b)
    /\ UNCHANGED <<boards, queries, nextIds, OtherBoardVars, bdReq, selfBoard, cutShort, plainKept>>

\* POST /saved-queries: a plain trace filter, no definition.
CreateSavedQuery ==
    /\ bdProject /\ nextIds.query <= MaxQueryIds
    /\ queries' = [queries EXCEPT ![nextIds.query] = "plain"]
    /\ nextIds' = [nextIds EXCEPT !.query = @ + 1]
    /\ plainKept' = plainKept \cup {nextIds.query}
    /\ UNCHANGED <<boards, panels, OtherBoardVars, bdReq, selfBoard, selfEdited, cutShort>>

\* DELETE /saved-queries/{id}: its panels go with it.
DeleteSavedQuery(q) ==
    /\ queries[q] # "none"
    /\ LET used == {i \in PanelIds : panels[i] # NoPanel /\ panels[i].query = q} IN
       /\ panels' = WithoutPanels(used)
       /\ selfEdited' = (selfEdited \/ \E i \in used : panels[i].board = selfBoard)
    /\ queries' = [queries EXCEPT ![q] = "none"]
    /\ plainKept' = plainKept \ {q}
    /\ UNCHANGED <<boards, nextIds, OtherBoardVars, bdReq, selfBoard, cutShort>>

\* deleteProjectBoards, inside DeleteProject (module Projects).
DeleteProjectBoards ==
    /\ bdProject /\ bdProject' = FALSE
    /\ boards' = [b \in BoardIds |-> "none"]
    /\ panels' = [i \in PanelIds |-> NoPanel]
    /\ queries' = [q \in QueryIds |-> "none"]
    /\ plainKept' = {}
    /\ selfEdited' = TRUE
    /\ UNCHANGED <<bdMode, bdFaults, fieldVars, ensure, nextIds, bdReq, selfBoard, cutShort>>

-----------------------------------------------------------------------------
(* EnsureBoard: the writer's own board.                                    *)

OtherEnsureVars == <<bdMode, bdProject, bdReq, fieldVars, plainKept>>

\* List the boards: one of that name is left as it is.
EnsureLists ==
    /\ ensure.step = "list"
    /\ ensure' = IF \E b \in BoardIds : boards[b] = SelfName THEN [step |-> "done"] ELSE [step |-> "create"]
    /\ UNCHANGED <<boardVars, OtherEnsureVars, bdFaults, selfBoard, selfEdited, cutShort>>

\* CreateBoard fails when the project is gone.
EnsureCreates ==
    /\ ensure.step = "create"
    /\ IF bdProject
       THEN /\ InsertBoard(SelfName)
            /\ selfBoard' = nextIds.board /\ selfEdited' = FALSE /\ cutShort' = FALSE
            /\ ensure' = [step |-> "panels", board |-> nextIds.board, added |-> 0]
       ELSE /\ ensure' = [step |-> "done"] /\ UNCHANGED <<boardVars, selfBoard, selfEdited, cutShort>>
    /\ UNCHANGED <<OtherEnsureVars, bdFaults>>

\* One AddPanel.  Its check and its write are close together and no other
\* step between them changes the outcome, so they are one step.
EnsureAdds ==
    /\ ensure.step = "panels"
    /\ LET b == ensure.board IN
       IF boards[b] # "none" /\ Cardinality(PanelsOf(b)) < PanelLimit
       THEN /\ AddPanelRows(b, "metric")
            /\ ensure' = IF ensure.added + 1 = SelfPanels THEN [step |-> "done"]
                         ELSE [ensure EXCEPT !.added = @ + 1]
       ELSE ensure' = [ensure EXCEPT !.step = "undo"] /\ UNCHANGED boardVars
    /\ UNCHANGED <<OtherEnsureVars, bdFaults, selfBoard, selfEdited, cutShort>>

\* AddPanel fails on a database error.
EnsureAddFails ==
    /\ ensure.step = "panels" /\ bdFaults < MaxBdFaults
    /\ bdFaults' = bdFaults + 1
    /\ ensure' = [ensure EXCEPT !.step = "undo"]
    /\ UNCHANGED <<boardVars, OtherEnsureVars, selfBoard, selfEdited, cutShort>>

\* Mutant: a half-built board is left standing.
EnsureUndoRows_Kept(b) == UNCHANGED boardVars

\* A half-built board is taken down (not found is fine).
EnsureUndoRows(b) == IF boards[b] = "none" THEN UNCHANGED boardVars ELSE DeleteBoardRows(b)

EnsureUndoes ==
    /\ ensure.step = "undo"
    /\ EnsureUndoRows(ensure.board)
    /\ ensure' = [step |-> "done"]
    /\ UNCHANGED <<OtherEnsureVars, bdFaults, selfBoard, selfEdited, cutShort>>

\* ... or the delete fails too.
EnsureUndoFails ==
    /\ ensure.step = "undo" /\ bdFaults < MaxBdFaults
    /\ bdFaults' = bdFaults + 1
    /\ ensure' = [step |-> "done"]
    /\ cutShort' = TRUE
    /\ UNCHANGED <<boardVars, OtherEnsureVars, selfBoard, selfEdited>>

\* The writer restarts: requests are gone, EnsureBoard starts over.
BdRestart ==
    /\ bdFaults < MaxBdFaults /\ bdFaults' = bdFaults + 1
    /\ bdReq' = [r \in BdReqs |-> NoBdReq]
    /\ ensure' = [step |-> "list"]
    /\ cutShort' = (cutShort \/ ensure.step \in {"panels", "undo"})
    /\ UNCHANGED <<bdMode, bdProject, boardVars, fieldVars, selfBoard, selfEdited, plainKept>>

-----------------------------------------------------------------------------
(* Calculated fields.                                                      *)

Listed == {fields[i] : i \in {j \in FieldIds : fields[j] # NoField}}
Has(list, name) == \E x \in list : x.name = name
Refs(list, name) == UNION {x.refs : x \in {y \in list : y.name = name}}

\* The stacks of names the compiler can be in.
Stacks == UNION {[1..n -> FieldNames] : n \in 1..Cardinality(FieldNames) + 1}

\* Mutant: only a field that names itself is a cycle.
Compiles_Direct(list) == \A x \in list : x.name \notin x.refs

\* Set.Validate: expand every field in place.  A field that is on the stack
\* already is a cycle; a name that is no field reads an attribute.
Compiles(list) ==
    LET Expand[stack \in Stacks] ==
            \A key \in Refs(list, Last(stack)) :
                Has(list, key) => key \notin Range(stack) /\ Expand[Append(stack, key)]
    IN  \A x \in list : Expand[<<x.name>>]

\* Create, first half: room, a free name, and no cycle with the others.
FieldCreateCheck(r, name, refs) ==
    /\ bdReq[r] = NoBdReq
    /\ Cardinality(Listed) < FieldLimit /\ ~Has(Listed, name)
    /\ Compiles(Listed \cup {[name |-> name, refs |-> refs]})
    /\ bdReq' = [bdReq EXCEPT ![r] = [op |-> "create", row |-> [name |-> name, refs |-> refs], list |-> fields]]
    /\ UNCHANGED <<bdMode, bdProject, boardVars, ensure, bdFaults, fieldVars, bdHistory>>

\* Create, second half: the name is unique in the table.
CreateCalculatedField(r) ==
    /\ bdReq[r].op = "create" /\ nextField <= MaxFieldIds
    /\ IF bdProject /\ ~Has(Listed, bdReq[r].row.name)
       THEN /\ fields' = [fields EXCEPT ![nextField] = bdReq[r].row]
            /\ nextField' = nextField + 1
            /\ fieldRace' = (fieldRace \/ fields # bdReq[r].list)
       ELSE UNCHANGED fieldVars
    /\ BdAnswer(r)
    /\ UNCHANGED <<bdMode, bdProject, boardVars, ensure, bdFaults, bdHistory>>

\* Update, first half: the field exists; the others are the list without it.
FieldUpdateCheck(r, i, name, refs) ==
    /\ bdReq[r] = NoBdReq /\ fields[i] # NoField
    /\ LET others == Listed \ {fields[i]}
           row == [name |-> name, refs |-> refs] IN
       /\ row # fields[i] /\ ~Has(others, name) /\ Compiles(others \cup {row})
       /\ bdReq' = [bdReq EXCEPT ![r] = [op |-> "change", id |-> i, row |-> row, list |-> fields]]
    /\ UNCHANGED <<bdMode, bdProject, boardVars, ensure, bdFaults, fieldVars, bdHistory>>

\* Update, second half: a field deleted meanwhile is not found.
UpdateCalculatedField(r) ==
    /\ bdReq[r].op = "change"
    /\ LET i == bdReq[r].id IN
       IF fields[i] # NoField /\ ~Has(Listed \ {fields[i]}, bdReq[r].row.name)
       THEN /\ fields' = [fields EXCEPT ![i] = bdReq[r].row]
            /\ fieldRace' = (fieldRace \/ fields # bdReq[r].list)
       ELSE UNCHANGED <<fields, fieldRace>>
    /\ BdAnswer(r)
    /\ UNCHANGED <<bdMode, bdProject, boardVars, ensure, bdFaults, nextField, bdHistory>>

\* Delete does not ask who uses the field: the name reads the attribute again.
DeleteCalculatedField(i) ==
    /\ fields[i] # NoField
    /\ fields' = [fields EXCEPT ![i] = NoField]
    /\ UNCHANGED <<bdMode, bdProject, boardVars, bdReq, ensure, bdFaults, nextField, fieldRace, bdHistory>>

\* What users start.
BoardRequest ==
    \/ \E name \in BoardNames : CreateBoard(name) \/ (\E b \in BoardIds : UpdateBoard(b, name))
    \/ \E b \in BoardIds :
          \/ DeleteBoard(b)
          \/ \E r \in BdReqs, view \in {"table", "metric"} : AddPanelCheck(r, b, view)
          \/ \E order \in SetToSeqs(PanelsOf(b)) : ReorderPanels(b, order)
    \/ \E r \in BdReqs, i \in PanelIds, view \in PanelViews : UpdatePanelCheck(r, i, view)
    \/ \E i \in PanelIds : DeletePanel(i)
    \/ CreateSavedQuery \/ (\E q \in QueryIds : DeleteSavedQuery(q)) \/ DeleteProjectBoards

FieldRequest ==
    \/ \E r \in BdReqs, name \in FieldNames, refs \in SUBSET FieldNames :
          \/ FieldCreateCheck(r, name, refs)
          \/ \E i \in FieldIds : FieldUpdateCheck(r, i, name, refs)
    \/ \E i \in FieldIds : DeleteCalculatedField(i)

BdNext ==
    \/ /\ bdEdits < MaxBdEdits /\ bdEdits' = bdEdits + 1
       /\ \/ bdMode = "boards" /\ BoardRequest
          \/ bdMode = "fields" /\ FieldRequest
    \/ /\ UNCHANGED bdEdits
       /\ \/ \E r \in BdReqs :
                AddPanel(r) \/ UpdatePanel(r) \/ CreateCalculatedField(r) \/ UpdateCalculatedField(r)
          \/ /\ bdMode = "boards"
             /\ \/ EnsureLists \/ EnsureCreates \/ EnsureAdds \/ EnsureAddFails
                \/ EnsureUndoes \/ EnsureUndoFails \/ BdRestart

BdSpec == BdInit /\ [][BdNext]_bdVars

-----------------------------------------------------------------------------
BdTypeOK ==
    /\ bdProject \in BOOLEAN /\ bdFaults \in 0..MaxBdFaults
    /\ boards \in [BoardIds -> BoardNames \cup {"none"}]
    /\ queries \in [QueryIds -> BoardQueries \cup {"plain", "none"}]
    /\ \A i \in PanelIds : panels[i] # NoPanel =>
          panels[i] \in [board : BoardIds, query : QueryIds, view : PanelViews, position : Nat]
    /\ \A i \in FieldIds : fields[i] # NoField => fields[i] \in [name : FieldNames, refs : SUBSET FieldNames]
    /\ ensure.step \in {"list", "create", "panels", "undo", "done"}

\* Every panel can be drawn: its board and its query exist, and the query is
\* over spans or a metric as its view needs, whatever deletes and view
\* switches ran between a request's check and its write.
PanelsWhole ==
    \A i \in PanelIds : panels[i] # NoPanel =>
        /\ boards[panels[i].board] # "none"
        /\ queries[panels[i].query] = DefinitionFor(panels[i].view)

\* A board query lives exactly as long as a panel uses it: no delete of a
\* panel, a board, a saved query or a project leaves one behind.
NoOrphanQueries ==
    \A q \in QueryIds : queries[q] \in BoardQueries =>
        \E i \in PanelIds : panels[i] # NoPanel /\ panels[i].query = q

\* A plain trace filter is only ever deleted by its own endpoint or with its
\* project, never by the clean-up after a panel or board.
PlainQueriesKept == \A q \in plainKept : queries[q] = "plain"

\* The panels of a board have distinct positions after any mix of adds,
\* deletes and reorders, so the grid has one order.
PositionsDistinct ==
    \A i, j \in PanelIds :
        panels[i] # NoPanel /\ panels[j] # NoPanel /\ panels[i].board = panels[j].board
            /\ panels[i].position = panels[j].position => i = j

\* The board the writer builds has all its panels once EnsureBoard is done,
\* unless a user changed it or a restart or a failed clean-up cut it short.
\* A half-built one would be found by name at the next start and stay so.
SelfBoardWhole ==
    ensure.step \in {"list", "create", "done"} /\ selfBoard # 0
        /\ ~selfEdited /\ ~cutShort /\ boards[selfBoard] # "none" =>
        Cardinality(PanelsOf(selfBoard)) = SelfPanels

\* The stored calculated fields never name each other in a circle, and stay
\* within the limit, as long as no write landed on a list that changed after
\* the write was checked against it.  (A circle is a nonempty set of fields
\* each of which names one of the set.)
FieldsCompile ==
    ~fieldRace =>
        /\ Cardinality(Listed) <= FieldLimit
        /\ ~\E S \in SUBSET {x.name : x \in Listed} \ {{}} :
              \A name \in S : Refs(Listed, name) \cap S # {}

\* Boards, panels, their queries and the calculated fields stay consistent
\* whatever requests interleave and wherever EnsureBoard stops
\* (repo_boards.go, repo_project_boards.go, board_metrics.go).
BoardsInv ==
    /\ BdTypeOK
    /\ PanelsWhole
    /\ NoOrphanQueries
    /\ PlainQueriesKept
    /\ PositionsDistinct
    /\ SelfBoardWhole
    /\ FieldsCompile
=============================================================================
