------------------------------ MODULE Dashboard ------------------------------
(***************************************************************************)
(* The dashboard (frontend/app.tsx) against the read API (internal/server/ *)
(* handlers.go).  What the user has chosen is kept in React state; effects *)
(* start a request per loader whenever a choice changes; answers arrive in *)
(* any order, are never cancelled nor numbered, and write into the same    *)
(* state, the chosen filters included, which starts the effects again.     *)
(*                                                                         *)
(* React runs the effects of a state change before it handles the next     *)
(* event, so a change and the requests it starts are one action.  What is  *)
(* shown of an answer is whose answer it is.  Rows do not change here.     *)
(***************************************************************************)
EXTENDS Naturals, FiniteSets

CONSTANTS
    Rows,         \* what is stored: [service, range, tags]
    Filters,      \* the filter values there are
    Group(_),     \* the meta target a filter value belongs to
    Ranges,       \* the time ranges to choose from
    Stacks,       \* the frame limits to choose from
    Opening,      \* [range, stacks] a page may open with (URL, localStorage)
    Views,        \* the views to choose from, "samples" the first
    Charts,       \* which of "graph", "samples", "summary" are looked at
    MaxEvents,    \* bound: choices of the user and failures together
    MaxRuns       \* bound: runs of the loading effect

ASSUME RowsAssumption == \A row \in Rows : row.range \in Ranges /\ row.tags \subseteq Filters
ASSUME ChartsAssumption == Charts \subseteq {"graph", "samples", "summary"}
ASSUME BoundsAssumption == {MaxEvents, MaxRuns} \subseteq Nat

VARIABLES
    want,      \* selectedService, selectedFilters, time range, stacksNum, graphView
    services,  \* services offered
    offered,   \* filterOptions: filter values offered
    draft,     \* the filter panel: [open, picks]
    shown,     \* per chart, the picture and the answers that led to it: below
    loading,   \* the loaders whose loading flag is set
    inflight,  \* requests not answered yet
    runs,      \* runs of the loading effect so far
    acts,      \* choices made so far
    failures   \* requests that failed so far

serverVars == <<services, offered, shown>>
vars == <<want, services, offered, draft, shown, loading, inflight, runs, acts, failures>>

(* NewProfileV2 answers 400 to an upload without a service name, so that   *)
(* none stored is the empty one of a page that has not selected any.       *)
NoService == ""
ASSUME ServiceAssumption == \A row \in Rows : row.service # NoService

Plots == Charts \cup {"metrics"}
Loaders == Plots \cup {"options", "services"}

(* A chart: what the request behind its picture asked for, if it has one;  *)
(* the run of the last answer to arrive and whether that had data; and the *)
(* newest run answered.                                                    *)
Nothing == [of |-> {}, run |-> 0, ok |-> FALSE, newest |-> 0]

(* What the server holds for a choice: filters of one field are            *)
(* alternatives, fields have to match together (BuildConditionsSq).        *)
Matches(row, chosen) ==
    \A f \in chosen : \E g \in chosen : Group(g) = Group(f) /\ g \in row.tags
Values(w) ==
    UNION {row.tags : row \in {r \in Rows : /\ r.service = w.service /\ r.range = w.range
                                            /\ Matches(r, w.filters)}}
ServicesIn(range) == {row.service : row \in {r \in Rows : r.range = range}}

-----------------------------------------------------------------------------
(* Effects.                                                                *)

(* The loaders the loading effect calls, metrics only where they show. *)
Due(w) == Charts \cup {"options"} \cup (IF w.view = "samples" THEN {} ELSE {"metrics"})

(* loadAll on the choices as they are now; left and busy are the requests  *)
(* and the flags from before.  With no service the effect returns.         *)
LoadAll(left, busy) ==
    IF want'.service = NoService
    THEN /\ inflight' = left
         /\ loading' = busy
         /\ runs' = runs
    ELSE /\ runs < MaxRuns
         /\ runs' = runs + 1
         /\ inflight' = left \cup {[loader |-> l, run |-> runs', of |-> want'] : l \in Due(want')}
         /\ loading' = busy \cup Due(want')

(* Faulty variant: the frame limit is missing among the dependencies. *)
LoadingEffectMissingDep(renewed, left, busy) ==
    IF renewed \/ [want EXCEPT !.stacks = want'.stacks] # want'
    THEN LoadAll(left, busy)
    ELSE inflight' = left /\ loading' = busy /\ runs' = runs

(* The effect runs if one of its dependencies changed, and an array made   *)
(* anew is a change (renewed), whatever it holds.                          *)
LoadingEffect(renewed, left, busy) ==
    IF renewed \/ want' # want
    THEN LoadAll(left, busy)
    ELSE inflight' = left /\ loading' = busy /\ runs' = runs

(* The panel's draft follows the filters whenever these are a new array. *)
DraftEffect(renewed) ==
    draft' = IF renewed THEN [draft EXCEPT !.picks = want'.filters] ELSE draft

-----------------------------------------------------------------------------
(* The page loads: filters come from localStorage, services are asked for. *)
AskServices(n, w) == [loader |-> "services", run |-> n, of |-> w]

Init ==
    /\ \E stored \in SUBSET Filters, o \in Opening :
          want = [service |-> NoService, filters |-> stored, range |-> o.range,
                  stacks |-> o.stacks, view |-> "samples"]
    /\ services = {}
    /\ offered = {}
    /\ draft = [open |-> FALSE, picks |-> want.filters]
    /\ shown = [p \in Plots |-> Nothing]
    /\ loading = {"services"}
    /\ inflight = {AskServices(0, want)}
    /\ runs = 0
    /\ acts = 0
    /\ failures = 0

-----------------------------------------------------------------------------
(* The user.                                                               *)

(* One choice, after which the parameters are w. *)
Choose(w, renewed, left, busy) ==
    /\ acts + failures < MaxEvents
    /\ acts' = acts + 1
    /\ want' = w
    /\ LoadingEffect(renewed, left, busy)
    /\ UNCHANGED <<serverVars, failures>>

(* Choosing the selected service deselects it, and the page selects the    *)
(* first one again, a change each time.                                    *)
ChooseService ==
    /\ "services" \notin loading
    /\ ~draft.open
    /\ \E s \in services :
          Choose([want EXCEPT !.service = s], TRUE, inflight, loading)
    /\ UNCHANGED draft

(* The time range: the services are asked for anew as well.  Applying the  *)
(* same one moves its times to now, a change too.                          *)
ChooseRange ==
    /\ ~draft.open
    /\ \E range \in Ranges :
          LET w == [want EXCEPT !.range = range]
          IN Choose(w, TRUE, inflight \cup {AskServices(acts + 1, w)}, loading \cup {"services"})
    /\ UNCHANGED draft

(* Typing into From or To changes nothing that is asked for until it is    *)
(* applied, but renews loadFlamegraph and with it the loading effect.      *)
EditTimes ==
    /\ ~draft.open
    /\ Choose(want, TRUE, inflight, loading)
    /\ UNCHANGED draft

ChooseStacksOrView ==
    /\ ~draft.open
    /\ \/ \E stacks \in Stacks \ {want.stacks} :
             Choose([want EXCEPT !.stacks = stacks], FALSE, inflight, loading)
       \/ \E view \in Views \ {want.view} :
             Choose([want EXCEPT !.view = view], FALSE, inflight, loading)
    /\ UNCHANGED draft

(* onRefreshFlamegraph: all loaders once more; the button waits for the    *)
(* flag of the graph.                                                      *)
Refresh ==
    /\ want.service # NoService
    /\ "graph" \notin loading
    /\ ~draft.open
    /\ acts + failures < MaxEvents
    /\ acts' = acts + 1
    /\ want' = want
    /\ LoadAll(inflight, loading)
    /\ UNCHANGED <<serverVars, draft, failures>>

(* onRefreshServices; its button waits for the flag of the services. *)
RefreshServices ==
    /\ "services" \notin loading
    /\ ~draft.open
    /\ Choose(want, FALSE, inflight \cup {AskServices(acts + 1, want)}, loading \cup {"services"})
    /\ UNCHANGED draft

(* The filter panel: it opens on the filters in force, picks are made of   *)
(* what is offered at the time, and closing it drops them.                 *)
TogglePanel ==
    /\ draft.open \/ ("options" \notin loading /\ offered # {} /\ want.service # NoService)
    /\ draft' = [open |-> ~draft.open, picks |-> want.filters]
    /\ UNCHANGED <<want, serverVars, loading, inflight, runs, acts, failures>>

TogglePick ==
    /\ draft.open
    /\ \E f \in offered :
          draft' = [draft EXCEPT !.picks = IF f \in @ THEN @ \ {f} ELSE @ \cup {f}]
    /\ UNCHANGED <<want, serverVars, loading, inflight, runs, acts, failures>>

ResetPicks ==
    /\ draft.open
    /\ draft.picks # {}
    /\ draft' = [draft EXCEPT !.picks = {}]
    /\ UNCHANGED <<want, serverVars, loading, inflight, runs, acts, failures>>

ApplyFilters ==
    /\ draft.open
    /\ draft.picks # want.filters
    /\ Choose([want EXCEPT !.filters = draft.picks], FALSE, inflight, loading)
    /\ draft' = [open |-> FALSE, picks |-> draft.picks]

User == ChooseService \/ ChooseRange \/ EditTimes \/ ChooseStacksOrView \/ Refresh
        \/ RefreshServices \/ TogglePanel \/ TogglePick \/ ResetPicks \/ ApplyFilters

-----------------------------------------------------------------------------
(* Answers.  Each takes its request away and clears the loader's flag, be  *)
(* there others of that loader or not (finally).                           *)

(* setServices, and the first one is selected if none is.  A database that *)
(* fails is answered 200 without a result, like no service at all.         *)
ServicesArrive(r) ==
    /\ r.loader = "services"
    /\ \/ services' = ServicesIn(r.of.range) /\ failures' = failures
       \/ services' = {} /\ acts + failures < MaxEvents /\ failures' = failures + 1
    /\ want' \in IF want.service = NoService /\ services' # {}
                 THEN {[want EXCEPT !.service = s] : s \in services'} ELSE {want}
    /\ LoadingEffect(FALSE, inflight \ {r}, loading \ {"services"})
    /\ UNCHANGED <<offered, draft, shown, acts>>

Shows(r, ok, picture) ==
    shown' = [shown EXCEPT ![r.loader] =
                 [of |-> picture, run |-> r.run, ok |-> ok,
                  newest |-> IF r.run > @.newest THEN r.run ELSE @.newest]]

(* What a chart shows after an answer that is no JSON (the 500 of          *)
(* GetFlamegraph, the 204 of the others) or that did not come: the series  *)
(* and the numbers are emptied, but without data the effect that draws the *)
(* flamegraph returns at once, and the old picture stays.                  *)
AfterFailure(loader) == IF loader = "graph" THEN shown[loader].of ELSE {}

(* Faulty variant: a failure leaves the loader's flag set. *)
PlotArrivesFlagKept(r) ==
    /\ r.loader \in Plots
    /\ \/ Shows(r, TRUE, {r.of}) /\ failures' = failures
          /\ loading' = loading \ {r.loader}
       \/ Shows(r, FALSE, AfterFailure(r.loader))
          /\ acts + failures < MaxEvents /\ failures' = failures + 1
          /\ loading' = loading
    /\ inflight' = inflight \ {r}
    /\ UNCHANGED <<want, services, offered, draft, runs, acts>>

(* The answer is shown, whichever run asked and whatever is chosen now. *)
PlotArrives(r) ==
    /\ r.loader \in Plots
    /\ \/ Shows(r, TRUE, {r.of}) /\ failures' = failures
       \/ Shows(r, FALSE, AfterFailure(r.loader))
          /\ acts + failures < MaxEvents /\ failures' = failures + 1
    /\ inflight' = inflight \ {r}
    /\ loading' = loading \ {r.loader}
    /\ UNCHANGED <<want, services, offered, draft, runs, acts>>

(* Faulty variant: the filters of the moment the request was made. *)
TakeOptionsFromClosure(r, values) ==
    /\ offered' = values
    /\ want' = [want EXCEPT !.filters = r.of.filters \cap values]
    /\ LoadingEffect(FALSE, inflight \ {r}, loading \ {"options"})
    /\ DraftEffect(want' # want)

(* The options replace those offered, and the filters that are not among   *)
(* them are dropped: setSelectedFilters maps the filters of the moment and *)
(* keeps the array if nothing is dropped.                                  *)
TakeOptions(r, values) ==
    /\ offered' = values
    /\ want' = [want EXCEPT !.filters = @ \cap values]
    /\ LoadingEffect(FALSE, inflight \ {r}, loading \ {"options"})
    /\ DraftEffect(want' # want)

(* All targets answered; those whose query failed at the database answer   *)
(* 200 with no values.                                                     *)
OptionsArrive(r) ==
    /\ r.loader = "options"
    /\ \/ TakeOptions(r, Values(r.of)) /\ failures' = failures
       \/ /\ acts + failures < MaxEvents /\ failures' = failures + 1
          /\ \E failed \in SUBSET {Group(f) : f \in Filters} \ {{}} :
                TakeOptions(r, {f \in Values(r.of) : Group(f) \notin failed})
    /\ UNCHANGED <<services, shown, acts>>

(* Faulty variant: a failure clears what is offered and no more. *)
OptionsFailKeepFilters(r) ==
    /\ r.loader = "options"
    /\ acts + failures < MaxEvents /\ failures' = failures + 1
    /\ offered' = {}
    /\ want' = want
    /\ LoadingEffect(FALSE, inflight \ {r}, loading \ {"options"})
    /\ UNCHANGED <<draft, services, shown, acts>>

(* One target did not answer at all: options and filters are emptied, and  *)
(* the empty array is a new one.                                           *)
OptionsFail(r) ==
    /\ r.loader = "options"
    /\ acts + failures < MaxEvents /\ failures' = failures + 1
    /\ offered' = {}
    /\ want' = [want EXCEPT !.filters = {}]
    /\ LoadingEffect(TRUE, inflight \ {r}, loading \ {"options"})
    /\ DraftEffect(TRUE)
    /\ UNCHANGED <<services, shown, acts>>

Answer ==
    \E r \in inflight :
        ServicesArrive(r) \/ PlotArrives(r) \/ OptionsArrive(r) \/ OptionsFail(r)

Next == User \/ Answer

(* Every request is answered or fails; the user owes nothing. *)
Spec == Init /\ [][Next]_vars /\ WF_vars(Answer)

-----------------------------------------------------------------------------
Waiting(loader) == \E r \in inflight : r.loader = loader

(* Once the options asked for have all arrived, in whatever order and with *)
(* whatever failures, every filter in force is one the panel offers: no    *)
(* query stays restricted by a value the user cannot see and clear.        *)
FiltersAreOffered ==
    runs > 0 /\ ~Waiting("options") => want.filters \subseteq offered

(* An answer may take filters away but never brings one back that the user *)
(* has cleared since the request was made, and it changes no other choice  *)
(* but the service of a page that had none.                                *)
AnswersOnlyPrune ==
    [][acts' = acts =>
         /\ want'.filters \subseteq want.filters
         /\ want.service # NoService => [want' EXCEPT !.filters = want.filters] = want]_vars

(* Once a chart has all its answers, its newest run, begun by the newest   *)
(* choice, is among them, and the chart shows what is chosen now - but for *)
(* two cases.  The newest answer came without data: then the series are    *)
(* empty, and the flamegraph keeps the picture of an older choice.  Or an  *)
(* older run's answer came after it: nothing tells the two apart.          *)
RestShowsTheChoice ==
    \A p \in Plots \cap Due(want) : runs > 0 /\ ~Waiting(p) =>
        /\ shown[p].newest = runs
        /\ shown[p].run = runs =>
              \/ shown[p].of = {want}
              \/ ~shown[p].ok /\ (p # "graph" => shown[p].of = {})

(* When the user stops and the server stops failing, the dashboard comes   *)
(* to rest: no request is in flight and no spinner turns, although each    *)
(* answer about filters may itself start every request again.              *)
ComesToRest == <>[](inflight = {} /\ loading = {})
=============================================================================
