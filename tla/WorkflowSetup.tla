---------------------------- MODULE WorkflowSetup ----------------------------
(***************************************************************************)
(* How the flows of a seller come to be and which of them answers: the     *)
(* business setup and the editor of flows (workflow-template.service.ts,   *)
(* workflows.controller.ts), the selection of a flow for a message         *)
(* (incoming-workflow-matcher.ts) and the walk of a customer through it    *)
(* (the executors of its nodes; retries and pauses are WorkflowRuns').     *)
(*                                                                         *)
(* The seller sends one request at a time; a setup writes in several       *)
(* steps, between which customers write and the process may stop.          *)
(***************************************************************************)
EXTENDS WorkflowTemplates

CONSTANTS
  Scopes,         \* sets of businesses and how much the seller does, to consider
  Drawings,       \* definitions a seller draws
  Messages,       \* [words, channel] of what a customer may write
  Rows,           \* ids of workflows, in the order they are created
  MaxMessages,    \* bound on messages
  None

VARIABLES
  scope,          \* the businesses of this behaviour and the operations left
  category, cases,  \* the settings business_category and use_cases
  row,            \* the workflows
  setup,          \* the setup request in progress
  talk,           \* the conversation of a customer with a flow
  messages

setupVars == <<scope, category, cases, row, setup, talk, messages>>

Idle == [at |-> "idle"]
NoTalk == [at |-> "end"]
NoRow == [business |-> None]

Existing == {r \in Rows : row[r] # NoRow}
Live(r) == row[r].status = "published" /\ row[r].active

Init ==
  /\ scope \in Scopes
  /\ category = None /\ cases = {}
  /\ row = [r \in Rows |-> NoRow]
  /\ setup = Idle /\ talk = NoTalk /\ messages = 0

(* A walk reads the definition once, so the seller's operations come between *)
(* the walks.                                                                *)
Talking == talk.at # "end"
Walking == Talking /\ ~talk.paused

Operate == scope.operations > 0 /\ ~Walking /\ setup = Idle
           /\ scope' = [scope EXCEPT !.operations = @ - 1]

(* buildVisibleWorkflowsWhere: what the portal shows.                        *)
Visible(r) ==
  /\ r \in Existing /\ ~row[r].archived
  /\ ~(row[r].source \in DOMAIN Starters /\ row[r].business = None)
  /\ category # None => row[r].business = category

Create(business, useCase, def, source) ==
  LET r == CHOOSE free \in Rows \ Existing : \A other \in Rows \ Existing : free <= other
  IN row' = [row EXCEPT ![r] =
       [business |-> business, useCase |-> useCase, def |-> def, source |-> source,
        status |-> "draft", active |-> FALSE, archived |-> FALSE]]

-----------------------------------------------------------------------------
(* Generation of a flow.                                                     *)

(* Mutant of Served: a flow that was archived counts.                        *)
ServedOnce(business, useCase) ==
  {r \in Existing : row[r].business = business /\ row[r].useCase = useCase}

(* The flows of a business for a use case.                                   *)
Served(business, useCase) ==
  {r \in Existing : row[r].business = business /\ row[r].useCase = useCase /\ ~row[r].archived}

(* upgradeAppointmentWorkflowIfNeeded and upgradeCatalogWorkflowIfNeeded: a  *)
(* stale flow of the product is replaced by its template.                    *)
Stale(r) ==
  \/ /\ row[r].useCase = "appointment_booking" /\ row[r].business \in SchedulingVerticals
     /\ AppointmentStale(row[r].def)
  \/ row[r].useCase = "catalog_share" /\ row[r].business = "catalog" /\ CatalogStale(row[r].def)

Upgraded(r) ==
  IF ~Stale(r) THEN row[r]
  ELSE LET slug == TemplateSlug(row[r].business, row[r].useCase)
       IN [row[r] EXCEPT !.def = Tagged(Template[slug], row[r].useCase), !.source = slug]

(* generateForUser; for "other" the AI may draw the flow (twice at most, and *)
(* what it draws is valid), otherwise a template is taken.                   *)
GenerateRow(business, useCase) ==
  LET served == Served(business, useCase)
      slug == TemplateSlug(business, useCase)
  IN \/ \E r \in served : row' = [row EXCEPT ![r] = Upgraded(r)]
     \/ /\ served = {} /\ Existing # Rows
        /\ \/ Create(business, useCase, Tagged(Template[slug], useCase), slug)
           \/ /\ business = "other"
              /\ \E def \in Drawings : Valid(def)
                   /\ Create(business, useCase, Tagged(def, useCase), "ai-generated")

(* POST /workflows/generate: whatever the current business is.               *)
Generate(business, useCase) ==
  /\ Operate
  /\ GenerateRow(business, useCase)
  /\ UNCHANGED <<category, cases, setup, talk, messages>>

(* cloneForUser and seedAllForUser: a starter, once.                         *)
Clone(slug) ==
  /\ Operate
  /\ \A r \in Existing : row[r].source # slug
  /\ Existing # Rows
  /\ Create(None, None, Starters[slug], slug)
  /\ UNCHANGED <<category, cases, setup, talk, messages>>

-----------------------------------------------------------------------------
(* setupBusinessForUser.                                                     *)
Changing(business) == category # None /\ category # business

BeginSetup(business, chosen) ==
  /\ Operate
  /\ SetupAllowed(business, chosen, category)
  /\ IF Changing(business)
     THEN /\ ~\E r \in Existing : Live(r) /\ row[r].business = category /\ ~row[r].archived
          /\ row' = [r \in Rows |->
               IF r \in Existing /\ Live(r) /\ ~row[r].archived
               THEN [row[r] EXCEPT !.status = "draft", !.active = FALSE] ELSE row[r]]
     ELSE UNCHANGED row
  /\ setup' = [at |-> "archive", business |-> business, cases |-> chosen, left |-> chosen]
  /\ UNCHANGED <<category, cases, talk, messages>>

(* The flows of the old business, or of the use cases that are dropped, are  *)
(* archived; the request fails if one of the latter is live.                 *)
ArchiveOld ==
  /\ ~Walking /\ setup.at = "archive"
  /\ LET dropped == {r \in Existing : /\ row[r].business = category /\ ~row[r].archived
                                      /\ row[r].useCase \in cases \ setup.cases}
         gone == CASE Changing(setup.business) ->
                        {r \in Existing : row[r].business = category /\ ~row[r].archived}
                   [] category = setup.business -> dropped
                   [] OTHER -> {}
         refused == category = setup.business /\ \E r \in dropped : Live(r)
     IN /\ row' = IF refused THEN row ELSE
             [r \in Rows |-> IF r \in gone
                THEN [row[r] EXCEPT !.archived = TRUE, !.status = "draft", !.active = FALSE]
                ELSE row[r]]
        /\ setup' = IF refused THEN Idle ELSE [setup EXCEPT !.at = "category"]
  /\ UNCHANGED <<scope, category, cases, talk, messages>>

SetCategory ==
  /\ ~Walking /\ setup.at = "category"
  /\ category' = setup.business
  /\ setup' = [setup EXCEPT !.at = "cases"]
  /\ UNCHANGED <<scope, cases, row, talk, messages>>

SetCases ==
  /\ ~Walking /\ setup.at = "cases"
  /\ cases' = setup.cases
  /\ setup' = IF category \in Plugins THEN Idle ELSE [setup EXCEPT !.at = "generate"]
  /\ UNCHANGED <<scope, category, row, talk, messages>>

GenerateNext(useCase) ==
  /\ ~Walking /\ setup.at = "generate" /\ useCase \in setup.left
  /\ GenerateRow(setup.business, useCase)
  /\ setup' = IF setup.left = {useCase} THEN Idle ELSE [setup EXCEPT !.left = @ \ {useCase}]
  /\ UNCHANGED <<scope, category, cases, talk, messages>>

(* The process stops, or a write fails, in the middle of a setup.            *)
CutSetup ==
  /\ setup # Idle
  /\ setup' = Idle
  /\ UNCHANGED <<scope, category, cases, row, talk, messages>>

-----------------------------------------------------------------------------
(* The editor.                                                               *)

(* POST /workflows: a draft, which is not validated.                         *)
Store(def) ==
  /\ Operate /\ Existing # Rows
  /\ Create(category, None, def, None)
  /\ UNCHANGED <<category, cases, setup, talk, messages>>

(* PUT /workflows/:id: a valid definition, or the active flag.               *)
Update(r, def) ==
  /\ Operate /\ Visible(r) /\ Valid(def)
  /\ row' = [row EXCEPT ![r].def = def]
  /\ UNCHANGED <<category, cases, setup, talk, messages>>

Pause(r, active) ==
  /\ Operate /\ Visible(r) /\ active # row[r].active
  /\ row' = [row EXCEPT ![r].active = active]
  /\ UNCHANGED <<category, cases, setup, talk, messages>>

(* POST :id/publish: refreshed first, then validated.                        *)
Publish(r) ==
  /\ Operate /\ Visible(r)
  /\ row' = [row EXCEPT ![r] = IF Valid(Upgraded(r).def)
                               THEN [Upgraded(r) EXCEPT !.status = "published", !.active = TRUE]
                               ELSE Upgraded(r)]
  /\ UNCHANGED <<category, cases, setup, talk, messages>>

Unpublish(r) ==
  /\ Operate /\ Visible(r)
  /\ row' = [row EXCEPT ![r].status = "draft", ![r].active = FALSE]
  /\ UNCHANGED <<category, cases, setup, talk, messages>>

Destroy(r) ==
  /\ Operate /\ Visible(r)
  /\ row' = [row EXCEPT ![r] = NoRow]
  /\ UNCHANGED <<category, cases, setup, talk, messages>>

(* syncAllAppointmentBookingWorkflows and syncAllCatalogWorkflows, live or   *)
(* not.                                                                      *)
Sync ==
  /\ Operate
  /\ row' = [r \in Rows |-> IF r \in Existing /\ ~row[r].archived /\ row[r].business = category
                            THEN Upgraded(r) ELSE row[r]]
  /\ UNCHANGED <<category, cases, setup, talk, messages>>

-----------------------------------------------------------------------------
(* The flow that answers a message.                                          *)
Answers(r, m) ==
  LET def == row[r].def
  IN /\ Live(r) /\ ~row[r].archived
     /\ category # None => row[r].business \in {category, None}
     /\ def.channel \in {"both", m.channel}
     /\ def.keywords = {} \/ def.keywords \cap m.words # {}

(* selectWorkflowForBusiness: those of the business first, then the most     *)
(* keywords; a tie goes to the last one that was written, which is left open.*)
Selected(m) ==
  LET matching == {r \in Existing : Answers(r, m)}
      tagged == {r \in matching : category # None /\ row[r].business = category}
      pool == IF tagged # {} THEN tagged ELSE matching
      hits(r) == Cardinality(row[r].def.keywords \cap m.words)
  IN {r \in pool : \A other \in pool : hits(other) <= hits(r)}

(* The engine refuses a flow that is not live or not valid.                  *)
Runs(r) == r \in Existing /\ Live(r) /\ Valid(row[r].def)

Message(m) ==
  /\ ~Talking /\ messages < MaxMessages
  /\ messages' = messages + 1
  /\ \E r \in Selected(m) :
       talk' = IF Runs(r)
               THEN [row |-> r, at |-> "trigger-1", paused |-> FALSE, words |-> m.words,
                     facts |-> {}, flow |-> row[r].def, whole |-> TRUE]
               ELSE NoTalk
  /\ UNCHANGED <<scope, category, cases, row, setup>>

Here == NodeOf(talk.flow, talk.at)
After(def, id) == {e[2] : e \in {x \in def.edges : x[1] = id}}

(* The walk goes on at the next node, or ends.                               *)
Advance(next, facts) == talk' = [talk EXCEPT !.at = next, !.facts = facts, !.paused = FALSE]

Goes(next) == IF next = {} THEN {"end"} ELSE next

Asking == {"collect", "pick", "list_resources", "list_slots", "photo", "list_categories", "list_products"}

(* A node that asks sends its question and waits.                            *)
Ask ==
  /\ Walking /\ Here.kind \in Asking
  /\ talk' = [talk EXCEPT !.paused = TRUE]
  /\ UNCHANGED <<scope, category, cases, row, setup, messages>>

(* The customer answers.  The flow is read again: a node that is gone ends   *)
(* the conversation.                                                         *)
Resume ==
  /\ Talking /\ talk.paused
  /\ IF ~Runs(talk.row) \/ talk.at \notin NodeIds(row[talk.row].def) THEN talk' = NoTalk
     ELSE LET def == row[talk.row].def
              jumps == IF talk.at = "pick-menu" THEN Range(def.menu) ELSE {}
              next == IF jumps # {} THEN jumps ELSE After(def, talk.at)
          IN \E to \in Goes(next) :
               talk' = [talk EXCEPT !.flow = def, !.whole = @ /\ talk.flow = def, !.at = to,
                                 !.facts = @ \cup NodeOf(def, talk.at).makes, !.paused = FALSE]
  /\ UNCHANGED <<scope, category, cases, row, setup, messages>>

(* The nodes that go on by themselves.                                       *)
TriggerStep ==
  /\ Walking /\ Here.kind \in {"trigger", "api", "create_order"}
  /\ \E next \in Goes(After(talk.flow, talk.at)) : Advance(next, talk.facts \cup Here.makes)
  /\ UNCHANGED <<scope, category, cases, row, setup, messages>>

ConditionStep ==
  /\ Walking /\ Here.kind = "condition"
  /\ \E next \in IF Here.word = "" \/ Here.word \in talk.words THEN Goes(After(talk.flow, talk.at)) ELSE {"end"} :
       Advance(next, talk.facts)
  /\ UNCHANGED <<scope, category, cases, row, setup, messages>>

(* AiService.generate: the model answers; or it does not (no key, an error,  *)
(* an empty answer), and the fallback of the node takes its place.           *)
Said(node) == {"answer", node.fallback}

AiStep ==
  /\ Walking /\ Here.kind = "ai"
  /\ \E said \in Said(Here) :
       IF said = "" THEN talk' = NoTalk
       ELSE \E next \in Goes(After(talk.flow, talk.at)) :
              Advance(next, talk.facts \cup Here.makes)
  /\ UNCHANGED <<scope, category, cases, row, setup, messages>>

(* A lead is saved, or the execution fails.                                  *)
SaveLeadStep ==
  /\ Walking /\ Here.kind = "save_lead"
  /\ \/ talk' = NoTalk
     \/ \E next \in Goes(After(talk.flow, talk.at)) : Advance(next, talk.facts \cup Here.makes)
  /\ UNCHANGED <<scope, category, cases, row, setup, messages>>

SendStep ==
  /\ Walking /\ Here.kind = "send"
  /\ \E next \in Goes(After(talk.flow, talk.at)) : Advance(next, talk.facts)
  /\ UNCHANGED <<scope, category, cases, row, setup, messages>>

(* The request is booked as pending; its conflicts are Bookings'.            *)
BookStep ==
  /\ Walking /\ Here.kind = "book"
  /\ \E next \in Goes(After(talk.flow, talk.at)) :
       Advance(next, talk.facts \cup Here.makes)
  /\ UNCHANGED <<scope, category, cases, row, setup, messages>>

-----------------------------------------------------------------------------
Next ==
  \/ \E b \in scope.businesses :
       \/ \E u \in UseCases : Generate(b, u)
       \/ b \in DOMAIN Verticals /\ \E chosen \in SUBSET Verticals[b].allowed : BeginSetup(b, chosen)
       \/ b \in Plugins /\ BeginSetup(b, {"ai_chat"})
  \/ \E slug \in DOMAIN Starters : Clone(slug)
  \/ ArchiveOld \/ SetCategory \/ SetCases \/ CutSetup
  \/ \E u \in UseCases : GenerateNext(u)
  \/ \E def \in Drawings : Store(def)
  \/ \E r \in Rows :
       \/ \E def \in Drawings : Update(r, def)
       \/ \E active \in BOOLEAN : Pause(r, active)
       \/ Publish(r) \/ Unpublish(r) \/ Destroy(r)
  \/ Sync
  \/ \E m \in Messages : Message(m)
  \/ Ask \/ Resume \/ TriggerStep \/ ConditionStep \/ AiStep \/ SaveLeadStep \/ SendStep \/ BookStep

Spec == Init /\ [][Next]_setupVars

-----------------------------------------------------------------------------
(* In a conversation with a flow that came from the product and was not      *)
(* changed meanwhile, no message names what is not known yet, whatever the   *)
(* business, the use case and the way through the flow; and nobody is told   *)
(* that a lead was saved, or a payment is due, before it is.                 *)
NeverWithoutFacts ==
  Walking /\ talk.whole /\ talk.flow \notin Drawings
    /\ row[talk.row] # NoRow /\ row[talk.row].source \in DOMAIN Template
  => Here.needs \subseteq talk.facts

(* A setup that completes leaves exactly one flow for each use case that was *)
(* chosen ("ensures one workflow per selected use case for the current        *)
(* business"), whatever was generated, archived, deleted or cut off before.  *)
SetupServes ==
  setup.at = "generate" /\ (\E u \in UseCases : GenerateNext(u)) /\ setup' = Idle =>
    \A u \in cases' : Cardinality({r \in Rows :
       row'[r] # NoRow /\ row'[r].business = category' /\ row'[r].useCase = u
         /\ ~row'[r].archived}) = 1

(* The flows the product puts live are up to date by its own test: the next  *)
(* publication or synchronisation leaves them alone ("Safe to call           *)
(* repeatedly - no-op when already up to date").                             *)
UpgradeSettles ==
  \A r \in Rows : (Publish(r) \/ Sync) /\ row'[r] # row[r] => ~Stale(r)'
=============================================================================
