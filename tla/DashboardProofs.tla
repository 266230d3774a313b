--------------------------- MODULE DashboardProofs ---------------------------
(***************************************************************************)
(* Proofs about Dashboard, for any stored rows, filters, ranges and limits *)
(* and any number of choices, failures and answers in flight.  The         *)
(* inductive invariant ties a request to the run of the loading effect     *)
(* that made it: the requests of the newest run ask for what is chosen     *)
(* now, older runs have smaller numbers, and until a chart has its newest  *)
(* answer, the request for it is in flight.                                *)
(***************************************************************************)
EXTENDS Dashboard, TLAPS

Services == {row.service : row \in Rows}
Params == [service : Services \cup {NoService}, filters : SUBSET Filters,
           range : Ranges \cup {o.range : o \in Opening},
           stacks : Stacks \cup {o.stacks : o \in Opening},
           view : Views \cup {"samples"}]
Requests == [loader : Loaders, run : Nat, of : Params]
Answers == [of : SUBSET Params, run : Nat, ok : BOOLEAN, newest : Nat]

(* The variables keep to their types; a filter is one that some row has or *)
(* that was stored in the browser.                                         *)
TypeOK ==
    /\ want \in Params
    /\ services \subseteq Services
    /\ offered \subseteq Filters
    /\ draft \in [open : BOOLEAN, picks : SUBSET Filters]
    /\ shown \in [Plots -> Answers]
    /\ loading \subseteq Loaders
    /\ inflight \subseteq Requests
    /\ runs \in Nat /\ acts \in Nat /\ failures \in Nat

(* Only a page with a service runs the effect or opens the filter panel,   *)
(* and a service once selected is never given up for none.                 *)
RunsHaveService ==
    want.service = NoService => runs = 0 /\ ~draft.open

(* A request of a chart or of the filter options carries the number of its *)
(* run, and those of the newest run ask for what is chosen now.            *)
RequestsOfRuns ==
    \A r \in inflight : r.loader # "services" =>
        /\ 0 < r.run /\ r.run <= runs
        /\ r.run = runs => r.of = want

(* The answers a chart has had are of runs there were. *)
ChartsOfRuns ==
    \A p \in Plots : shown[p].newest <= runs /\ shown[p].run <= runs

(* The newest run's request of a chart is in flight until it is answered,  *)
(* and what a chart shows of that answer is what is chosen now.            *)
NewestRun ==
    runs > 0 => \A p \in Plots :
        /\ p \in Due(want) =>
              \/ shown[p].newest = runs
              \/ \E r \in inflight : r.loader = p /\ r.run = runs
        /\ shown[p].run = runs =>
              \/ shown[p].of = {want}
              \/ ~shown[p].ok /\ (p # "graph" => shown[p].of = {})

(* A spinner turns only while a request of its loader is in flight. *)
SpinnersHaveRequests == \A l \in loading : Waiting(l)

IInv == TypeOK /\ RunsHaveService /\ RequestsOfRuns /\ ChartsOfRuns
        /\ FiltersAreOffered /\ NewestRun /\ SpinnersHaveRequests

-----------------------------------------------------------------------------
(* The loaders of a run: each chart's and the options' are never those of  *)
(* the services.                                                           *)
LEMMA LoaderNames ==
    /\ "services" \notin Plots /\ "options" \notin Plots
    /\ \A w : Due(w) \subseteq Plots \cup {"options"} /\ "options" \in Due(w)
  BY ChartsAssumption DEF Plots, Due

(* What holds between the requests, the charts and the spinners survives   *)
(* a run of the loading effect, which takes place whenever the parameters  *)
(* change: left and busy are what an action leaves of requests and flags.  *)
LEMMA EffectIInv ==
    ASSUME TypeOK, RunsHaveService, RequestsOfRuns, ChartsOfRuns,
           NewestRun,
           NEW renewed \in BOOLEAN, NEW left, NEW busy,
           LoadingEffect(renewed, left, busy),
           left \subseteq Requests,
           \A r \in left : r.loader # "services" => r \in inflight,
           \A r \in inflight : r.loader \in Plots => r \in left,
           busy \subseteq Loaders,
           \A l \in busy : \E r \in left : r.loader = l,
           UNCHANGED shown, want' \in Params,
           want'.service = NoService => want.service = NoService /\ ~draft'.open
    PROVE  /\ inflight' \subseteq Requests /\ loading' \subseteq Loaders
           /\ runs' \in Nat
           /\ RunsHaveService' /\ RequestsOfRuns' /\ ChartsOfRuns'
           /\ NewestRun' /\ SpinnersHaveRequests'
           /\ \/ want' = want /\ runs' = runs /\ inflight' = left
              \/ want'.service = NoService /\ runs' = runs /\ inflight' = left
              \/ Waiting("options")'
  <1>1. CASE want'.service = NoService \/ (~renewed /\ want' = want)
    <2>1. /\ inflight' = left /\ loading' = busy /\ runs' = runs
          /\ want' = want \/ want'.service = NoService
      BY <1>1 DEF LoadingEffect, LoadAll
    <2>2. want' = want \/ runs = 0
      BY <2>1 DEF RunsHaveService
    <2>3. runs' \in Nat /\ RunsHaveService'
      BY <2>1, <2>2 DEF RunsHaveService, TypeOK
    <2>4. RequestsOfRuns' /\ SpinnersHaveRequests'
      BY <2>1, <2>2 DEF RequestsOfRuns, SpinnersHaveRequests, Waiting, TypeOK, Requests
    <2>5. ChartsOfRuns'
      BY <2>1 DEF ChartsOfRuns
    <2>6. NewestRun'
      BY <2>1, <2>2 DEF NewestRun, TypeOK
    <2> QED BY <2>1, <2>3, <2>4, <2>5, <2>6
  <1>2. CASE want'.service # NoService /\ (renewed \/ want' # want)
    <2> DEFINE new == {[loader |-> l, run |-> runs', of |-> want'] : l \in Due(want')}
    <2>1. /\ runs \in Nat /\ runs' = runs + 1
          /\ inflight' = left \cup new
          /\ loading' = busy \cup Due(want')
      BY <1>2 DEF LoadingEffect, LoadAll, TypeOK
    <2>2. /\ Due(want') \subseteq Loaders
          /\ \A r \in new : /\ r \in Requests /\ r.run = runs' /\ r.of = want'
                            /\ r.loader \in Due(want')
          /\ \A l \in Due(want') : \E r \in new : r.loader = l
      <3>1. Due(want') \subseteq Loaders
        BY LoaderNames DEF Loaders
      <3>2. \A l \in Due(want') : [loader |-> l, run |-> runs', of |-> want'] \in new
        OBVIOUS
      <3>3. ASSUME NEW r \in new
            PROVE  /\ r \in Requests /\ r.run = runs' /\ r.of = want'
                   /\ r.loader \in Due(want')
        <4>1. PICK l \in Due(want') : r = [loader |-> l, run |-> runs', of |-> want']
          OBVIOUS
        <4>2. l \in Loaders /\ runs' \in Nat
          BY <2>1, <3>1
        <4> QED BY <4>1, <4>2 DEF Requests
      <3>4. ASSUME NEW l \in Due(want')
            PROVE  \E r \in new : r.loader = l
        <4>1. [loader |-> l, run |-> runs', of |-> want'].loader = l
          OBVIOUS
        <4> QED BY <3>2, <4>1
      <3> HIDE DEF new
      <3> QED BY <3>1, <3>3, <3>4
    <2>3. RunsHaveService'
      BY <1>2 DEF RunsHaveService
    <2>4. RequestsOfRuns'
      BY <2>1, <2>2 DEF RequestsOfRuns, Requests
    <2>5. ChartsOfRuns'
      BY <2>1 DEF ChartsOfRuns, TypeOK, Answers
    <2>6. /\ Waiting("options")'
          /\ \A l \in Due(want') : \E r \in inflight' : r.loader = l /\ r.run = runs'
      BY <2>1, <2>2, LoaderNames DEF Waiting
    <2>7. SpinnersHaveRequests'
      BY <2>1, <2>6 DEF SpinnersHaveRequests, Waiting
    <2>8. NewestRun'
      <3>1. \A p \in Plots : shown'[p].run # runs'
        BY <2>1 DEF ChartsOfRuns, TypeOK, Answers
      <3> QED BY <2>6, <3>1 DEF NewestRun
    <2> QED BY <2>1, <2>2, <2>3, <2>4, <2>5, <2>6, <2>7, <2>8
  <1> QED BY <1>1, <1>2

-----------------------------------------------------------------------------
LEMMA InitIInv == Init => IInv
  <1> SUFFICES ASSUME Init PROVE IInv
    OBVIOUS
  <1>1. /\ want \in Params /\ want.service = NoService
        /\ services = {} /\ offered = {} /\ runs = 0 /\ acts = 0 /\ failures = 0
        /\ draft = [open |-> FALSE, picks |-> want.filters]
        /\ shown = [p \in Plots |-> Nothing]
        /\ loading = {"services"} /\ inflight = {AskServices(0, want)}
    BY DEF Init, Params
  <1>2. /\ AskServices(0, want) \in Requests
        /\ AskServices(0, want).loader = "services"
    BY <1>1 DEF AskServices, Requests, Loaders
  <1>3. TypeOK
    <2>1. Nothing \in Answers /\ want.filters \in SUBSET Filters
      BY <1>1 DEF Nothing, Answers, Params
    <2> QED BY <1>1, <1>2, <2>1 DEF TypeOK, Loaders
  <1>4. RunsHaveService /\ RequestsOfRuns /\ FiltersAreOffered
    BY <1>1, <1>2 DEF RunsHaveService, RequestsOfRuns, FiltersAreOffered
  <1>5. ChartsOfRuns /\ NewestRun
    BY <1>1 DEF ChartsOfRuns, NewestRun, Nothing
  <1>6. SpinnersHaveRequests
    BY <1>1, <1>2 DEF SpinnersHaveRequests, Waiting
  <1> QED BY <1>3, <1>4, <1>5, <1>6 DEF IInv

(* What a choice leaves of the filter panel. *)
LEMMA ChooseIInv ==
    ASSUME IInv, NEW w \in Params, NEW renewed \in BOOLEAN,
           NEW left, NEW busy, Choose(w, renewed, left, busy),
           \/ left = inflight /\ busy = loading
           \/ /\ left = inflight \cup {AskServices(acts + 1, w)}
              /\ busy = loading \cup {"services"},
           w.service = NoService => want.service = NoService,
           draft' \in [open : BOOLEAN, picks : SUBSET Filters],
           draft'.open => FALSE,
           w.filters = want.filters \/ w.service # NoService
    PROVE  IInv'
  <1>1. /\ TypeOK /\ RunsHaveService /\ RequestsOfRuns /\ ChartsOfRuns
        /\ FiltersAreOffered /\ NewestRun /\ SpinnersHaveRequests
    BY DEF IInv
  <1>2. /\ want' = w /\ acts' = acts + 1 /\ LoadingEffect(renewed, left, busy)
        /\ UNCHANGED <<services, offered, shown, failures>>
    BY DEF Choose, serverVars
  <1>3. AskServices(acts + 1, w) \in Requests /\ AskServices(acts + 1, w).loader = "services"
    BY <1>1 DEF AskServices, Requests, Loaders, TypeOK
  <1>4. /\ left \subseteq Requests /\ busy \subseteq Loaders
        /\ \A r \in left : r.loader # "services" => r \in inflight
        /\ inflight \subseteq left
        /\ \A l \in busy : \E r \in left : r.loader = l
    BY <1>1, <1>3 DEF TypeOK, Loaders, SpinnersHaveRequests, Waiting
  <1>5. /\ inflight' \subseteq Requests /\ loading' \subseteq Loaders
        /\ runs' \in Nat
        /\ RunsHaveService' /\ RequestsOfRuns' /\ ChartsOfRuns'
        /\ NewestRun' /\ SpinnersHaveRequests'
        /\ \/ want' = want /\ runs' = runs /\ inflight' = left
           \/ want'.service = NoService /\ runs' = runs /\ inflight' = left
           \/ Waiting("options")'
    BY <1>1, <1>2, <1>4, EffectIInv
  <1>6. TypeOK'
    BY <1>1, <1>2, <1>5 DEF TypeOK
  <1>7. FiltersAreOffered'
    BY <1>1, <1>2, <1>4, <1>5 DEF FiltersAreOffered, Waiting
  <1> QED BY <1>5, <1>6, <1>7 DEF IInv

(* The user's choices and the filter panel. *)
LEMMA UserIInv ==
    ASSUME IInv, User
    PROVE  IInv'
  <1>1. /\ TypeOK /\ RunsHaveService /\ RequestsOfRuns /\ ChartsOfRuns
        /\ FiltersAreOffered /\ NewestRun /\ SpinnersHaveRequests
    BY DEF IInv
  <1>2. CASE ChooseService
    <2>1. PICK s \in services :
             Choose([want EXCEPT !.service = s], TRUE, inflight, loading)
      BY <1>2 DEF ChooseService
    <2>2. s \in Services /\ s # NoService
      BY <1>1, ServiceAssumption DEF TypeOK, Services
    <2>3. /\ [want EXCEPT !.service = s] \in Params
          /\ [want EXCEPT !.service = s].service = s
      BY <1>1, <2>2 DEF TypeOK, Params
    <2>4. draft' = draft /\ ~draft.open
      BY <1>2 DEF ChooseService
    <2>5. draft' \in [open : BOOLEAN, picks : SUBSET Filters]
      BY <1>1, <2>4 DEF TypeOK
    <2> QED BY <2>1, <2>2, <2>3, <2>4, <2>5, ChooseIInv
  <1>3. CASE ChooseRange
    <2>1. PICK range \in Ranges :
             LET w == [want EXCEPT !.range = range]
             IN Choose(w, TRUE, inflight \cup {AskServices(acts + 1, w)},
                       loading \cup {"services"})
      BY <1>3 DEF ChooseRange
    <2> DEFINE w == [want EXCEPT !.range = range]
    <2>2. w \in Params /\ w.service = want.service /\ w.filters = want.filters
      BY <1>1 DEF TypeOK, Params
    <2>3. /\ draft' = draft /\ ~draft.open
          /\ draft' \in [open : BOOLEAN, picks : SUBSET Filters]
      BY <1>1, <1>3 DEF ChooseRange, TypeOK
    <2>4. Choose(w, TRUE, inflight \cup {AskServices(acts + 1, w)},
                 loading \cup {"services"})
      BY <2>1
    <2> HIDE DEF w
    <2> QED BY <2>2, <2>3, <2>4, ChooseIInv
  <1>4. CASE ChooseStacksOrView
    <2>1. PICK w \in Params : /\ Choose(w, FALSE, inflight, loading)
                              /\ w.service = want.service
                              /\ w.filters = want.filters
      <3>1. CASE \E stacks \in Stacks \ {want.stacks} :
                    Choose([want EXCEPT !.stacks = stacks], FALSE, inflight, loading)
        <4>1. PICK stacks \in Stacks :
                 Choose([want EXCEPT !.stacks = stacks], FALSE, inflight, loading)
          BY <3>1
        <4>2. /\ [want EXCEPT !.stacks = stacks] \in Params
              /\ [want EXCEPT !.stacks = stacks].service = want.service
              /\ [want EXCEPT !.stacks = stacks].filters = want.filters
          BY <1>1 DEF TypeOK, Params
        <4> QED BY <4>1, <4>2
      <3>2. CASE \E view \in Views \ {want.view} :
                    Choose([want EXCEPT !.view = view], FALSE, inflight, loading)
        <4>1. PICK view \in Views :
                 Choose([want EXCEPT !.view = view], FALSE, inflight, loading)
          BY <3>2
        <4>2. /\ [want EXCEPT !.view = view] \in Params
              /\ [want EXCEPT !.view = view].service = want.service
              /\ [want EXCEPT !.view = view].filters = want.filters
          BY <1>1 DEF TypeOK, Params
        <4> QED BY <4>1, <4>2
      <3> QED BY <1>4, <3>1, <3>2 DEF ChooseStacksOrView
    <2>2. /\ draft' = draft /\ ~draft.open
          /\ draft' \in [open : BOOLEAN, picks : SUBSET Filters]
      BY <1>1, <1>4 DEF ChooseStacksOrView, TypeOK
    <2> QED BY <2>1, <2>2, ChooseIInv
  <1>5. CASE Refresh
    <2>1. /\ want' = want /\ LoadAll(inflight, loading)
          /\ UNCHANGED <<services, offered, shown, draft, failures>>
          /\ acts' = acts + 1 /\ ~draft.open
      BY <1>5 DEF Refresh, serverVars
    <2>2. LoadingEffect(TRUE, inflight, loading)
      BY <2>1 DEF LoadingEffect
    <2>3. /\ inflight \subseteq Requests /\ loading \subseteq Loaders
          /\ \A l \in loading : \E r \in inflight : r.loader = l
          /\ want' \in Params
      BY <1>1, <2>1 DEF TypeOK, SpinnersHaveRequests, Waiting
    <2>4. /\ inflight' \subseteq Requests /\ loading' \subseteq Loaders
          /\ runs' \in Nat
          /\ RunsHaveService' /\ RequestsOfRuns' /\ ChartsOfRuns'
          /\ NewestRun' /\ SpinnersHaveRequests'
          /\ \/ want' = want /\ runs' = runs /\ inflight' = inflight
             \/ want'.service = NoService /\ runs' = runs /\ inflight' = inflight
             \/ Waiting("options")'
      BY <1>1, <2>1, <2>2, <2>3, EffectIInv
    <2>5. TypeOK'
      BY <1>1, <2>1, <2>4 DEF TypeOK
    <2>6. FiltersAreOffered'
      BY <1>1, <2>1, <2>4 DEF FiltersAreOffered, Waiting
    <2> QED BY <2>4, <2>5, <2>6 DEF IInv
  <1>6. CASE RefreshServices
    <2>1. /\ Choose(want, FALSE, inflight \cup {AskServices(acts + 1, want)},
                    loading \cup {"services"})
          /\ want \in Params /\ draft' = draft /\ ~draft.open
          /\ draft' \in [open : BOOLEAN, picks : SUBSET Filters]
      BY <1>1, <1>6 DEF RefreshServices, TypeOK
    <2> QED BY <2>1, ChooseIInv
  <1>7. CASE TogglePanel \/ TogglePick \/ ResetPicks
    <2>1. /\ UNCHANGED <<want, services, offered, shown, loading, inflight, runs,
                         acts, failures>>
          /\ draft' \in [open : BOOLEAN, picks : SUBSET Filters]
          /\ draft'.open => want.service # NoService
      <3>1. CASE TogglePanel
        BY <1>1, <3>1 DEF TogglePanel, serverVars, TypeOK, Params, RunsHaveService
      <3>2. CASE TogglePick
        BY <1>1, <3>2 DEF TogglePick, serverVars, TypeOK, RunsHaveService
      <3>3. CASE ResetPicks
        BY <1>1, <3>3 DEF ResetPicks, serverVars, TypeOK, RunsHaveService
      <3> QED BY <1>7, <3>1, <3>2, <3>3
    <2> QED BY <1>1, <2>1
            DEF IInv, TypeOK, RunsHaveService, RequestsOfRuns, ChartsOfRuns,
                FiltersAreOffered, NewestRun, SpinnersHaveRequests,
                Waiting
  <1>8. CASE ApplyFilters
    <2> DEFINE w == [want EXCEPT !.filters = draft.picks]
    <2>1. /\ Choose(w, FALSE, inflight, loading)
          /\ draft.open /\ draft' = [open |-> FALSE, picks |-> draft.picks]
      BY <1>8 DEF ApplyFilters
    <2>2. /\ w \in Params /\ w.service = want.service /\ want.service # NoService
          /\ draft' \in [open : BOOLEAN, picks : SUBSET Filters] /\ ~draft'.open
      BY <1>1, <2>1 DEF TypeOK, Params, RunsHaveService
    <2> HIDE DEF w
    <2> QED BY <2>1, <2>2, ChooseIInv
  <1>9. CASE EditTimes
    <2>1. /\ Choose(want, TRUE, inflight, loading)
          /\ want \in Params /\ draft' = draft /\ ~draft.open
          /\ draft' \in [open : BOOLEAN, picks : SUBSET Filters]
      BY <1>1, <1>9 DEF EditTimes, TypeOK
    <2> QED BY <2>1, ChooseIInv
  <1> QED BY <1>2, <1>3, <1>4, <1>5, <1>6, <1>7, <1>8, <1>9 DEF User

-----------------------------------------------------------------------------
(* Once a request has its answer: the flag of its loader goes, the others' *)
(* requests and flags stay.                                                *)
LEMMA AnsweredRequest ==
    ASSUME IInv, NEW r \in inflight
    PROVE  /\ r \in Requests
           /\ inflight \ {r} \subseteq Requests
           /\ loading \ {r.loader} \subseteq Loaders
           /\ \A q \in inflight : q.loader # r.loader => q \in inflight \ {r}
           /\ \A l \in loading \ {r.loader} : \E q \in inflight \ {r} : q.loader = l
  BY DEF IInv, TypeOK, SpinnersHaveRequests, Waiting

LEMMA ServicesArriveIInv ==
    ASSUME IInv, NEW r \in inflight, ServicesArrive(r)
    PROVE  IInv'
  <1>1. /\ TypeOK /\ RunsHaveService /\ RequestsOfRuns /\ ChartsOfRuns
        /\ FiltersAreOffered /\ NewestRun /\ SpinnersHaveRequests
    BY DEF IInv
  <1>2. /\ r.loader = "services"
        /\ services' = ServicesIn(r.of.range) \/ services' = {}
        /\ failures' = failures \/ failures' = failures + 1
        /\ LoadingEffect(FALSE, inflight \ {r}, loading \ {r.loader})
        /\ UNCHANGED <<offered, draft, shown, acts>>
    BY DEF ServicesArrive
  <1>3. services' \subseteq Services
    BY <1>2 DEF ServicesIn, Services
  <1>4. \/ want' = want
        \/ want.service = NoService /\ \E s \in services' : want' = [want EXCEPT !.service = s]
    BY DEF ServicesArrive
  <1>5. /\ want' \in Params /\ want'.filters = want.filters
        /\ want'.service = NoService => want' = want
    BY <1>1, <1>3, <1>4, ServiceAssumption DEF TypeOK, Params, Services
  <1>6. want'.service = NoService => want.service = NoService /\ ~draft'.open
    BY <1>1, <1>2, <1>5 DEF RunsHaveService
  <1>7. /\ inflight' \subseteq Requests /\ loading' \subseteq Loaders
        /\ runs' \in Nat
        /\ RunsHaveService' /\ RequestsOfRuns' /\ ChartsOfRuns'
        /\ NewestRun' /\ SpinnersHaveRequests'
        /\ \/ want' = want /\ runs' = runs /\ inflight' = inflight \ {r}
           \/ want'.service = NoService /\ runs' = runs /\ inflight' = inflight \ {r}
           \/ Waiting("options")'
    <2>1. \A q \in inflight : q.loader \in Plots => q \in inflight \ {r}
      BY <1>2, LoaderNames
    <2>2. /\ inflight \ {r} \subseteq Requests
          /\ loading \ {r.loader} \subseteq Loaders
          /\ \A q \in inflight \ {r} : q.loader # "services" => q \in inflight
          /\ \A l \in loading \ {r.loader} : \E q \in inflight \ {r} : q.loader = l
      BY AnsweredRequest
    <2>3. LoadingEffect(FALSE, inflight \ {r}, loading \ {r.loader}) /\ UNCHANGED shown
      BY <1>2
    <2> QED BY <1>1, <1>5, <1>6, <2>1, <2>2, <2>3, EffectIInv
  <1>8. TypeOK'
    BY <1>1, <1>2, <1>3, <1>5, <1>7 DEF TypeOK
  <1>9. FiltersAreOffered'
    BY <1>1, <1>2, <1>5, <1>7 DEF FiltersAreOffered, Waiting
  <1> QED BY <1>7, <1>8, <1>9 DEF IInv

LEMMA PlotArrivesIInv ==
    ASSUME IInv, NEW r \in inflight, PlotArrives(r)
    PROVE  IInv'
  <1>1. /\ TypeOK /\ RunsHaveService /\ RequestsOfRuns /\ ChartsOfRuns
        /\ FiltersAreOffered /\ NewestRun /\ SpinnersHaveRequests
    BY DEF IInv
  <1>2. /\ r.loader \in Plots
        /\ Shows(r, TRUE, {r.of}) \/ Shows(r, FALSE, AfterFailure(r.loader))
        /\ failures' = failures \/ failures' = failures + 1
        /\ inflight' = inflight \ {r} /\ loading' = loading \ {r.loader}
        /\ UNCHANGED <<want, services, offered, draft, runs, acts>>
    BY DEF PlotArrives
  <1>3. /\ r \in Requests /\ inflight' \subseteq Requests /\ loading' \subseteq Loaders
        /\ r.run \in Nat /\ r.of \in Params
        /\ \A l \in loading' : \E q \in inflight' : q.loader = l
    BY <1>2, AnsweredRequest DEF Requests
  <1>4. /\ 0 < r.run /\ r.run <= runs
        /\ r.run = runs => r.of = want
    BY <1>1, <1>2, LoaderNames DEF RequestsOfRuns
  <1>5. /\ shown' \in [Plots -> Answers]
        /\ shown'[r.loader].run = r.run
        /\ shown'[r.loader].newest =
              IF r.run > shown[r.loader].newest THEN r.run ELSE shown[r.loader].newest
        /\ \/ shown'[r.loader].of = {r.of}
           \/ ~shown'[r.loader].ok /\ (r.loader # "graph" => shown'[r.loader].of = {})
        /\ \A p \in Plots \ {r.loader} : shown'[p] = shown[p]
    <2>1. PICK ok \in BOOLEAN, picture \in SUBSET Params :
             /\ Shows(r, ok, picture)
             /\ picture = {r.of} \/ (~ok /\ (r.loader # "graph" => picture = {}))
      <3>1. {r.of} \in SUBSET Params /\ AfterFailure(r.loader) \in SUBSET Params
        BY <1>1, <1>2, <1>3 DEF AfterFailure, TypeOK, Answers
      <3>2. r.loader # "graph" => AfterFailure(r.loader) = {}
        BY DEF AfterFailure
      <3>3. CASE Shows(r, TRUE, {r.of})
        BY <3>1, <3>3
      <3>4. CASE Shows(r, FALSE, AfterFailure(r.loader))
        BY <3>1, <3>2, <3>4
      <3> QED BY <1>2, <3>3, <3>4
    <2> DEFINE seen == [of |-> picture, run |-> r.run, ok |-> ok,
                        newest |-> IF r.run > shown[r.loader].newest
                                   THEN r.run ELSE shown[r.loader].newest]
    <2>2. shown' = [shown EXCEPT ![r.loader] = seen]
      BY <2>1 DEF Shows
    <2>3. shown \in [Plots -> Answers] /\ shown[r.loader].newest \in Nat
      BY <1>1, <1>2 DEF TypeOK, Answers
    <2>4. seen \in Answers
      BY <1>3, <2>3 DEF Answers
    <2>5. /\ seen.run = r.run /\ seen.of = picture /\ seen.ok = ok
          /\ seen.newest = IF r.run > shown[r.loader].newest
                           THEN r.run ELSE shown[r.loader].newest
      OBVIOUS
    <2> HIDE DEF seen
    <2>6. /\ shown' \in [Plots -> Answers] /\ shown'[r.loader] = seen
          /\ \A p \in Plots \ {r.loader} : shown'[p] = shown[p]
      BY <1>2, <2>2, <2>3, <2>4
    <2> QED BY <2>1, <2>5, <2>6
  <1>6. TypeOK'
    BY <1>1, <1>2, <1>3, <1>5 DEF TypeOK
  <1>7. RunsHaveService' /\ RequestsOfRuns' /\ SpinnersHaveRequests'
    BY <1>1, <1>2, <1>3 DEF RunsHaveService, RequestsOfRuns, SpinnersHaveRequests, Waiting
  <1>8. ChartsOfRuns'
    BY <1>1, <1>2, <1>4, <1>5 DEF ChartsOfRuns
  <1>9. FiltersAreOffered'
    BY <1>1, <1>2, LoaderNames DEF FiltersAreOffered, Waiting
  <1>10. NewestRun'
    <2> SUFFICES ASSUME runs > 0, NEW p \in Plots
                 PROVE  /\ p \in Due(want) =>
                              \/ shown'[p].newest = runs
                              \/ \E q \in inflight' : q.loader = p /\ q.run = runs
                        /\ shown'[p].run = runs =>
                              \/ shown'[p].of = {want}
                              \/ ~shown'[p].ok /\ (p # "graph" => shown'[p].of = {})
      BY <1>2 DEF NewestRun, Due
    <2>1. CASE p = r.loader
      <3>1. shown[p].newest \in Nat /\ shown[p].newest <= runs /\ runs \in Nat
        BY <1>1 DEF TypeOK, ChartsOfRuns, Answers
      <3>2. CASE r.run = runs
        BY <1>3, <1>4, <1>5, <2>1, <3>1, <3>2
      <3>3. CASE r.run # runs
        <4>1. shown'[p].run # runs
          BY <1>5, <2>1, <3>3
        <4>2. shown[p].newest = runs => shown'[p].newest = runs
          BY <1>3, <1>4, <1>5, <2>1, <3>1
        <4>3. \A q \in inflight : q.run = runs => q \in inflight'
          BY <1>2, <3>3
        <4> QED BY <1>1, <4>1, <4>2, <4>3 DEF NewestRun
      <3> QED BY <3>2, <3>3
    <2>2. CASE p # r.loader
      <3>1. \A q \in inflight : q.loader = p => q \in inflight'
        BY <1>2, <2>2
      <3>2. shown'[p] = shown[p]
        BY <1>5, <2>2
      <3> QED BY <1>1, <3>1, <3>2 DEF NewestRun
    <2> QED BY <2>1, <2>2
  <1> QED BY <1>6, <1>7, <1>8, <1>9, <1>10 DEF IInv

(* The answer about filters, whole, in part or none: what is offered       *)
(* afterwards contains every filter still in force.                        *)
LEMMA OptionsIInv ==
    ASSUME IInv, NEW r \in inflight, OptionsArrive(r) \/ OptionsFail(r)
    PROVE  IInv'
  <1>1. /\ TypeOK /\ RunsHaveService /\ RequestsOfRuns /\ ChartsOfRuns
        /\ FiltersAreOffered /\ NewestRun /\ SpinnersHaveRequests
    BY DEF IInv
  <1>2. Values(r.of) \subseteq Filters
    BY RowsAssumption DEF Values
  <1>3. PICK values \in SUBSET Filters, renewed \in BOOLEAN, fresh \in BOOLEAN :
           /\ offered' = values
           /\ want' = [want EXCEPT !.filters = @ \cap values]
           /\ LoadingEffect(renewed, inflight \ {r}, loading \ {r.loader})
           /\ DraftEffect(fresh)
    <2>1. CASE OptionsFail(r)
      <3>1. want.filters \cap {} = {}
        OBVIOUS
      <3>2. /\ offered' = {} /\ want' = [want EXCEPT !.filters = @ \cap {}]
            /\ LoadingEffect(TRUE, inflight \ {r}, loading \ {r.loader})
            /\ DraftEffect(TRUE)
        BY <2>1, <3>1 DEF OptionsFail
      <3> QED BY <3>2
    <2>2. CASE OptionsArrive(r)
      <3>1. PICK values \in SUBSET Filters : TakeOptions(r, values)
        <4>1. \A failed : {f \in Values(r.of) : Group(f) \notin failed} \in SUBSET Filters
          BY <1>2
        <4> QED BY <1>2, <2>2, <4>1 DEF OptionsArrive
      <3>2. r.loader = "options" /\ (want' # want) \in BOOLEAN
        BY <2>2 DEF OptionsArrive
      <3> QED BY <3>1, <3>2 DEF TakeOptions
    <2> QED BY <2>1, <2>2
  <1>4. /\ r.loader = "options"
        /\ failures' = failures \/ failures' = failures + 1
        /\ UNCHANGED <<services, shown, acts>>
    BY DEF OptionsArrive, OptionsFail
  <1>5. /\ want' \in Params /\ want'.filters = want.filters \cap values
        /\ want'.service = want.service
    BY <1>1, <1>3 DEF TypeOK, Params
  <1>6. draft' \in [open : BOOLEAN, picks : SUBSET Filters] /\ draft'.open = draft.open
    <2>1. want'.filters \in SUBSET Filters
      BY <1>5 DEF Params
    <2> QED BY <1>1, <1>3, <2>1 DEF DraftEffect, TypeOK
  <1>7. /\ inflight' \subseteq Requests /\ loading' \subseteq Loaders
        /\ runs' \in Nat
        /\ RunsHaveService' /\ RequestsOfRuns' /\ ChartsOfRuns'
        /\ NewestRun' /\ SpinnersHaveRequests'
    <2>1. \A q \in inflight : q.loader \in Plots => q \in inflight \ {r}
      BY <1>4, LoaderNames
    <2>2. want'.service = NoService => want.service = NoService /\ ~draft'.open
      BY <1>1, <1>5, <1>6 DEF RunsHaveService
    <2>3. /\ inflight \ {r} \subseteq Requests
          /\ loading \ {r.loader} \subseteq Loaders
          /\ \A q \in inflight \ {r} : q.loader # "services" => q \in inflight
          /\ \A l \in loading \ {r.loader} : \E q \in inflight \ {r} : q.loader = l
      BY AnsweredRequest
    <2>4. /\ LoadingEffect(renewed, inflight \ {r}, loading \ {r.loader})
          /\ UNCHANGED shown
      BY <1>3, <1>4
    <2> QED BY <1>1, <1>5, <2>1, <2>2, <2>3, <2>4, EffectIInv
  <1>8. TypeOK'
    BY <1>1, <1>3, <1>4, <1>5, <1>6, <1>7 DEF TypeOK
  <1>9. FiltersAreOffered'
    BY <1>3, <1>5 DEF FiltersAreOffered
  <1> QED BY <1>7, <1>8, <1>9 DEF IInv

LEMMA NextIInv == IInv /\ [Next]_vars => IInv'
  <1> SUFFICES ASSUME IInv, [Next]_vars PROVE IInv'
    OBVIOUS
  <1>1. CASE UNCHANGED vars
    BY <1>1
       DEF vars, IInv, TypeOK, RunsHaveService, RequestsOfRuns, ChartsOfRuns,
           FiltersAreOffered, NewestRun, SpinnersHaveRequests, Waiting
  <1> QED BY <1>1, UserIInv, ServicesArriveIInv, PlotArrivesIInv, OptionsIInv
          DEF Next, Answer

LEMMA SpecIInv == Spec => []IInv
  <1>1. Init => IInv
    BY InitIInv
  <1>2. IInv /\ [Next]_vars => IInv'
    BY NextIInv
  <1> QED BY <1>1, <1>2, PTL DEF Spec

-----------------------------------------------------------------------------
(* Whatever answers are lost to failures or overtake one another, once the *)
(* options asked for have arrived no filter in force is hidden from the    *)
(* user.                                                                   *)
THEOREM FiltersStayOffered == Spec => []FiltersAreOffered
  <1>1. IInv => FiltersAreOffered
    BY DEF IInv
  <1> QED BY <1>1, SpecIInv, PTL

(* A chart whose answers are all in has had the newest run's, and if that  *)
(* is the last to have arrived, it shows what is chosen now, or the answer *)
(* had no data: then the series are empty (loadMetricsGraph,             *)
(* loadSampleCounts, loadSummaryStats), and only the flamegraph keeps an   *)
(* older picture.                                                          *)
THEOREM ChartsRestOnTheChoice == Spec => []RestShowsTheChoice
  <1>1. IInv => RestShowsTheChoice
    BY DEF IInv, NewestRun, RestShowsTheChoice, Waiting
  <1> QED BY <1>1, SpecIInv, PTL

(* A loader's flag is cleared by the first of its answers and set by each  *)
(* of its requests: no spinner turns that no answer will stop.             *)
THEOREM NoSpinnerIsLeft == Spec => []SpinnersHaveRequests
  <1>1. IInv => SpinnersHaveRequests
    BY DEF IInv
  <1> QED BY <1>1, SpecIInv, PTL

(* An answer only ever takes filters away, and selects a service only on a *)
(* page that has none (loadFilterOptions, the effect that selects the      *)
(* first service).                                                         *)
THEOREM AnswersOnlyPruneChoices == Spec => AnswersOnlyPrune
  <1>1. IInv /\ [Next]_vars =>
           (acts' = acts =>
              /\ want'.filters \subseteq want.filters
              /\ want.service # NoService =>
                    [want' EXCEPT !.filters = want.filters] = want)
    <2> SUFFICES ASSUME IInv, [Next]_vars, acts' = acts
                 PROVE  /\ want'.filters \subseteq want.filters
                        /\ want.service # NoService =>
                              [want' EXCEPT !.filters = want.filters] = want
      OBVIOUS
    <2>1. want \in Params /\ acts \in Nat /\ acts + 1 # acts
      BY DEF IInv, TypeOK
    <2>2. CASE want' = want
      BY <2>1, <2>2 DEF Params
    <2>3. ASSUME NEW values, want' = [want EXCEPT !.filters = want.filters \cap values]
          PROVE  /\ want'.filters \subseteq want.filters
                 /\ [want' EXCEPT !.filters = want.filters] = want
      BY <2>1, <2>3 DEF Params
    <2>4. CASE User
      BY <2>1, <2>2, <2>4
         DEF User, ChooseService, ChooseRange, EditTimes, ChooseStacksOrView, Refresh,
             RefreshServices, TogglePanel, TogglePick, ResetPicks, ApplyFilters,
             Choose
    <2>5. ASSUME NEW r \in inflight, ServicesArrive(r)
          PROVE  /\ want'.filters \subseteq want.filters
                 /\ want.service # NoService => want' = want
      BY <2>1, <2>5 DEF ServicesArrive, Params
    <2>6. ASSUME NEW r \in inflight, OptionsArrive(r)
          PROVE  \E values : want' = [want EXCEPT !.filters = want.filters \cap values]
      BY <2>6 DEF OptionsArrive, TakeOptions
    <2>7. ASSUME NEW r \in inflight, OptionsFail(r)
          PROVE  want' = [want EXCEPT !.filters = want.filters \cap {}]
      BY <2>7 DEF OptionsFail
    <2>8. ASSUME NEW r \in inflight, PlotArrives(r)
          PROVE  want' = want
      BY <2>8 DEF PlotArrives
    <2> QED BY <2>2, <2>3, <2>4, <2>5, <2>6, <2>7, <2>8 DEF Next, Answer, vars
  <1> QED BY <1>1, SpecIInv, PTL DEF Spec, AnswersOnlyPrune
=============================================================================
