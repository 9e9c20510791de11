-------------------------- MODULE WorkflowTemplates --------------------------
(***************************************************************************)
(* The flows a seller starts from: business-workflow-templates.ts, the     *)
(* starters of workflow-templates.ts, which of them a business gets for a  *)
(* use case (business-workflow.ts, business-verticals.registry.ts), and    *)
(* the validator of definitions (workflow-validator.service.ts).           *)
(*                                                                         *)
(* A definition is the nodes in their order, the edges between their ids,  *)
(* the options of a menu that jump, the words that trigger it and the      *)
(* channel it listens on.  Of a node's texts only the placeholders are     *)
(* kept (needs: facts of the conversation its message names), what it adds *)
(* to the conversation (makes) and what it tells the customer (says).      *)
(***************************************************************************)
EXTENDS Integers, Sequences, FiniteSets, SequencesExt

Node(id, kind) ==
  [id |-> id, kind |-> kind, word |-> "", needs |-> {}, makes |-> {}, says |-> {}, fallback |-> ""]

Contact == {"contact_name", "business_name"}

(* The nodes the templates are made of.                                      *)
Trigger == [Node("trigger-1", "trigger") EXCEPT !.makes = Contact \cup {"message"}]
Send(id, needs, says) == [Node(id, "send") EXCEPT !.needs = needs, !.says = says]
Reply(id) == Send(id, {"ai_response"}, {"ai"})
Collect(id, field) == [Node(id, "collect") EXCEPT !.makes = {field}]
Condition(word) == [Node("condition-1", "condition") EXCEPT !.word = word]

Ai(fallback) ==
  [Node("ai-1", "ai") EXCEPT !.needs = {"message"}, !.makes = {"ai_response"}, !.fallback = fallback]

(* DEFAULT_AI: what every guided assistant says when the model does not      *)
(* answer is "Your appointment is confirmed!".                               *)
GuidedAi == Ai("confirmed")

SaveLead(fields) == [Node("save-lead-1", "save_lead") EXCEPT !.needs = fields, !.makes = {"lead"}]
LeadCaptureTail(fields) ==
  <<SaveLead(fields), Send("send-confirm", Contact \cup fields \cup {"lead"}, {"saved"})>>

PickService == [Node("pick-service", "pick") EXCEPT !.needs = Contact, !.makes = {"service_type"}]
PickDate ==
  [Node("pick-date", "pick") EXCEPT !.needs = {"service_type", "business_name"}, !.makes = {"preferred_date"}]
ListResources ==
  [Node("list-resources", "list_resources") EXCEPT !.needs = {"preferred_date"}, !.makes = {"resource_name"}]
PickTimePeriod ==
  [Node("pick-time-period", "pick") EXCEPT
     !.needs = {"resource_name", "preferred_date"}, !.makes = {"time_period"}]
ListSlots ==
  [Node("list-slots", "list_slots") EXCEPT
     !.needs = {"time_period", "resource_name", "preferred_date"}, !.makes = {"booking_time"}]
BookSlot ==
  [Node("book-slot", "book") EXCEPT !.needs = {"service_type", "resource_name", "booking_time"},
                                    !.makes = {"booking"}, !.says = {"pending", "confirmed"}]

-----------------------------------------------------------------------------
NoMenu == [option \in {} |-> ""]

(* linearFlow: each node leads to the next.                                  *)
Linear(nodes) ==
  [nodes |-> nodes, edges |-> {<<nodes[i - 1].id, nodes[i].id>> : i \in 2..Len(nodes)},
   menu |-> NoMenu, keywords |-> {}, channel |-> "both"]

SalonOrder ==
  <<Trigger, PickService, PickDate, ListResources, PickTimePeriod, ListSlots, BookSlot>>

(* Mutant of LiveAppointment: the day is asked after the person.             *)
LiveAppointmentDateLast ==
  Linear(<<Trigger, PickService, ListResources, PickDate, PickTimePeriod, ListSlots, BookSlot,
           SaveLead({"service_type", "preferred_date", "resource_name", "time_period", "booking_time"})>>)

(* buildLiveAppointmentFlow: one graph for every business with appointments. *)
LiveAppointment ==
  Linear(SalonOrder
    \o <<SaveLead({"service_type", "preferred_date", "resource_name", "time_period", "booking_time"})>>)

RealEstateLeadGen ==
  Linear(<<Trigger, Collect("collect-budget", "budget"), Collect("collect-location", "location"),
           Collect("collect-type", "property_type")>>
         \o LeadCaptureTail({"budget", "location", "property_type"}))
RealEstateFaq == Linear(<<Trigger, Condition("price"), Send("send-1", {}, {"text"})>>)
ClinicSupport == Linear(<<Trigger, GuidedAi, Reply("send-1")>>)
CoachingLeadGen == Linear(<<Trigger, GuidedAi, Reply("send-1")>> \o LeadCaptureTail({}))
CoachingInstagramLeadGen == [CoachingLeadGen EXCEPT !.channel = "instagram"]
LocalShopFaq == Linear(<<Trigger, Condition("hours"), Send("send-1", {}, {"text"})>>)
LocalShopSupport == Linear(<<Trigger, Condition("order"), Send("send-1", Contact, {"text"})>>)
TravelLeadGen == Linear(<<Trigger, GuidedAi, Reply("send-1")>> \o LeadCaptureTail({}))
InsuranceLeadGen == Linear(<<Trigger, GuidedAi, Reply("send-1")>> \o LeadCaptureTail({}))
InsuranceSales == Linear(<<Trigger, GuidedAi, Reply("send-1")>>)
FarmerSupport == Linear(<<Trigger, GuidedAi, Reply("send-1")>>)
FarmerFaq == Linear(<<Trigger, Condition("price"), Send("send-1", {}, {"text"})>>)
CaAccountantSupport == Linear(<<Trigger, GuidedAi, Reply("send-1")>>)
SupportTeamAssistant == Linear(<<Trigger, GuidedAi, Reply("send-1")>>)

(* The shop: a menu of the website and the catalog, then an order.           *)
CatalogShare ==
  LET pick(id, kind, makes) == [Node(id, kind) EXCEPT !.makes = makes]
  IN [nodes |-> <<
        Trigger, [pick("pick-menu", "pick", {"menu_choice"}) EXCEPT !.needs = Contact],
        pick("list-catalog-categories", "list_categories", {"category"}),
        [pick("list-catalog-products", "list_products", {"product"}) EXCEPT !.needs = {"category"}],
        [pick("create-catalog-order", "create_order", {"order"}) EXCEPT !.needs = {"product"}],
        Send("send-payment-qr", {"order"}, {"qr"}),
        [pick("collect-payment-screenshot", "photo", {"screenshot"}) EXCEPT !.needs = {"order"}],
        Send("send-payment-received", {}, {}),
        Send("send-website", {}, {"text"})>>,
      edges |-> {<<"trigger-1", "pick-menu">>, <<"pick-menu", "list-catalog-categories">>,
                 <<"pick-menu", "send-website">>,
                 <<"list-catalog-categories", "list-catalog-products">>,
                 <<"list-catalog-products", "create-catalog-order">>,
                 <<"create-catalog-order", "send-payment-qr">>,
                 <<"send-payment-qr", "collect-payment-screenshot">>,
                 <<"collect-payment-screenshot", "send-payment-received">>},
      menu |-> [website |-> "send-website", catalog |-> "list-catalog-categories"],
      keywords |-> {}, channel |-> "whatsapp"]

(* The starters.                                                             *)
AllNodesDemo ==
  Linear(<<Trigger, Condition(""), Node("api-1", "api"), Ai("team"), Reply("send-1")>>)
WelcomeAutoReply == Linear(<<Trigger, Send("send-1", Contact, {"text"})>>)
KeywordFaq == Linear(<<Trigger, Condition("hours"), Send("send-1", {}, {"text"})>>)
AiSupportAssistant == Linear(<<Trigger, Ai("team"), Reply("send-1")>>)
LeadCaptureApi ==
  Linear(<<Trigger, SaveLead({}), Send("send-1", Contact \cup {"lead"}, {"saved"})>>)
OrderStatusInquiry ==
  Linear(<<Trigger, Condition("order"), Node("api-1", "api"), Send("send-1", Contact, {"text"})>>)

(* WORKFLOW_TEMPLATES, by slug.                                              *)
Starters ==
  ("all-nodes-demo" :> AllNodesDemo) @@ ("welcome-auto-reply" :> WelcomeAutoReply)
  @@ ("keyword-faq" :> KeywordFaq) @@ ("ai-support-assistant" :> AiSupportAssistant)
  @@ ("lead-capture-api" :> LeadCaptureApi) @@ ("order-status-inquiry" :> OrderStatusInquiry)

(* LIVE_APPOINTMENT_BY_VERTICAL: the slugs of the booking flows.             *)
AppointmentSlug ==
  [salon |-> "salon-appointment", clinic |-> "clinic-appointment",
   coaching |-> "coaching-appointment", real_estate |-> "real-estate-appointment",
   ca_accountant |-> "ca-accountant-appointment", travel |-> "travel-booking",
   sports_turf |-> "sports-turf-booking"]

SchedulingVerticals == DOMAIN AppointmentSlug

(* GUIDED_WORKFLOW_TEMPLATES and findAnyTemplate, by slug.                   *)
Guided ==
  [slug \in {AppointmentSlug[v] : v \in SchedulingVerticals} |-> LiveAppointment]
  @@ ("real-estate-lead-gen" :> RealEstateLeadGen) @@ ("real-estate-faq" :> RealEstateFaq)
  @@ ("clinic-support" :> ClinicSupport) @@ ("coaching-lead-gen" :> CoachingLeadGen)
  @@ ("coaching-lead-gen-instagram" :> CoachingInstagramLeadGen)
  @@ ("local-shop-faq" :> LocalShopFaq) @@ ("local-shop-support" :> LocalShopSupport)
  @@ ("travel-lead-gen" :> TravelLeadGen) @@ ("insurance-lead-gen" :> InsuranceLeadGen)
  @@ ("insurance-sales" :> InsuranceSales) @@ ("farmer-support" :> FarmerSupport)
  @@ ("farmer-faq" :> FarmerFaq) @@ ("ca-accountant-support" :> CaAccountantSupport)
  @@ ("support-team-assistant" :> SupportTeamAssistant) @@ ("catalog-share" :> CatalogShare)

Template == Starters @@ Guided

-----------------------------------------------------------------------------
(* Which template a business gets for a use case.                            *)
AnyUseCase == {"appointment_booking", "lead_generation", "customer_support",
               "faq_bot", "sales_assistant", "ai_chat"}
UseCases == AnyUseCase \cup {"catalog_share"}

(* One template for every use case, with exceptions.                         *)
Of(slug, exceptions) == exceptions @@ [u \in AnyUseCase |-> slug]

(* COMBO_OVERRIDES.                                                          *)
Overrides == [
  salon |-> [appointment_booking |-> "salon-appointment"],
  sports_turf |-> [appointment_booking |-> "sports-turf-booking"],
  catalog |-> [catalog_share |-> "catalog-share"],
  real_estate |-> Of("real-estate-lead-gen",
    [appointment_booking |-> "real-estate-appointment", faq_bot |-> "real-estate-faq",
     customer_support |-> "real-estate-appointment"]),
  clinic |-> Of("clinic-support",
    [appointment_booking |-> "clinic-appointment", lead_generation |-> "clinic-appointment"]),
  coaching |-> Of("coaching-lead-gen", [appointment_booking |-> "coaching-appointment"]),
  local_shop |-> Of("local-shop-support", [faq_bot |-> "local-shop-faq"]),
  travel |-> Of("travel-booking",
    [lead_generation |-> "travel-lead-gen", sales_assistant |-> "travel-lead-gen"]),
  insurance |-> Of("insurance-sales",
    [lead_generation |-> "insurance-lead-gen", faq_bot |-> "insurance-lead-gen",
     appointment_booking |-> "insurance-lead-gen"]),
  farmer |-> Of("farmer-support", [faq_bot |-> "farmer-faq"]),
  ca_accountant |-> Of("ca-accountant-support", [appointment_booking |-> "ca-accountant-appointment"]),
  support |-> [u \in AnyUseCase |-> "support-team-assistant"]]

(* USE_CASE_FALLBACK.                                                        *)
Fallback ==
  [customer_support |-> "ai-support-assistant", lead_generation |-> "lead-capture-api",
   appointment_booking |-> "welcome-auto-reply", sales_assistant |-> "ai-support-assistant",
   faq_bot |-> "keyword-faq", ai_chat |-> "ai-support-assistant", catalog_share |-> "catalog-share"]

(* resolveTemplateSlug.                                                      *)
TemplateSlug(business, useCase) ==
  IF business \in DOMAIN Overrides /\ useCase \in DOMAIN Overrides[business]
  THEN Overrides[business][useCase] ELSE Fallback[useCase]

(* USE_CASE_TRIGGER_KEYWORDS.                                                *)
Keywords ==
  [lead_generation |-> {"lead", "buy", "quote", "interested", "inquiry", "price"},
   appointment_booking |-> {"book", "appointment", "schedule", "slot", "meeting", "visit", "barber",
                            "stylist", "haircut", "turf", "ground", "cricket", "football"},
   faq_bot |-> {"faq", "hours", "location", "info", "timing", "address", "where"},
   customer_support |-> {"help", "support", "issue", "problem", "complaint", "assist"},
   sales_assistant |-> {"order", "purchase", "catalog", "product", "shop", "buy"},
   catalog_share |-> {"hi", "hello", "hey", "catalog", "catalogue", "menu", "website", "order",
                      "price", "product", "brochure"},
   ai_chat |-> {}]

(* applyUseCaseTriggerKeywords.                                              *)
Tagged(def, useCase) == [def EXCEPT !.keywords = IF Keywords[useCase] = {} THEN @ ELSE Keywords[useCase]]

(* BUSINESS_VERTICALS: the use cases a business may choose, how many, and    *)
(* whether it can still be chosen.                                           *)
Vertical(allowed, most, open) == [allowed |-> allowed, most |-> most, open |-> open]

Verticals == [
  salon |-> Vertical({"appointment_booking"}, 1, TRUE),
  clinic |-> Vertical({"appointment_booking", "customer_support"}, 1, TRUE),
  coaching |-> Vertical({"lead_generation", "appointment_booking"}, 2, TRUE),
  real_estate |-> Vertical({"lead_generation", "appointment_booking"}, 2, TRUE),
  ca_accountant |-> Vertical({"appointment_booking"}, 1, TRUE),
  sports_turf |-> Vertical({"appointment_booking"}, 1, TRUE),
  travel |-> Vertical({"lead_generation", "appointment_booking"}, 2, TRUE),
  local_shop |-> Vertical({"lead_generation", "customer_support"}, 1, TRUE),
  catalog |-> Vertical({"catalog_share"}, 1, TRUE),
  farmer |-> Vertical({"faq_bot", "customer_support", "lead_generation", "appointment_booking"}, 2, FALSE),
  insurance |-> Vertical({"lead_generation", "customer_support", "appointment_booking"}, 2, FALSE),
  support |-> Vertical({"customer_support", "faq_bot", "lead_generation"}, 2, FALSE),
  other |-> Vertical({"ai_chat", "customer_support", "lead_generation", "appointment_booking"}, 2, FALSE)]

HiddenUseCases == {"faq_bot", "sales_assistant", "ai_chat"}

(* Businesses that have a product of their own and no flows.                 *)
Plugins == {"career_ai"}

(* validateBusinessSetup, with the rules of the catalog of businesses on.    *)
SetupAllowed(business, cases, current) ==
  IF business \in Plugins THEN TRUE ELSE
  LET vertical == Verticals[business]
      continuing == ~vertical.open /\ current = business
  IN /\ vertical.open \/ continuing
     /\ cases # {} /\ Cardinality(cases) <= vertical.most /\ cases \subseteq vertical.allowed
     /\ continuing \/ cases \cap HiddenUseCases = {}

-----------------------------------------------------------------------------
(* WorkflowValidator.validate: one trigger, nothing disconnected, no cycle.  *)
NodeIds(def) == {def.nodes[i].id : i \in DOMAIN def.nodes}
Kinds(def) == {def.nodes[i].kind : i \in DOMAIN def.nodes}
NodeOf(def, id) == def.nodes[CHOOSE i \in DOMAIN def.nodes : def.nodes[i].id = id]

Acyclic(def) ==
  \A S \in SUBSET NodeIds(def) : S # {} => \E id \in S : \A next \in S : <<id, next>> \notin def.edges

Valid(def) ==
  /\ Cardinality({i \in DOMAIN def.nodes : def.nodes[i].kind = "trigger"}) = 1
  /\ \A i \in DOMAIN def.nodes :
       def.nodes[i].kind # "trigger" => \E e \in def.edges : def.nodes[i].id \in Range(e)
  /\ Acyclic(def)

(* appointmentWorkflowNeedsUpgrade.                                          *)
AppointmentStale(def) ==
  \/ "collect" \in Kinds(def)
  \/ ~{"pick", "list_resources", "list_slots", "book"} \subseteq Kinds(def)
  \/ "pick-time-period" \notin NodeIds(def)
  \/ NodeIds(def) \cap {"ai-welcome", "send-welcome", "ai-service-ack", "ai-thanks", "send-thanks"} # {}
  \/ \A i \in DOMAIN def.nodes :
       def.nodes[i].kind = "book" => ~{"pending", "confirmed"} \subseteq def.nodes[i].says

(* isCatalogCommerceWorkflowDefinitionCurrent, negated.                      *)
CatalogStale(def) ==
  \/ ~{"pick-menu", "list-catalog-categories", "list-catalog-products", "create-catalog-order",
       "send-payment-qr", "collect-payment-screenshot", "send-payment-received"} \subseteq NodeIds(def)
  \/ ~{"list_categories", "list_products", "create_order", "photo"} \subseteq Kinds(def)
  \/ ~{"website", "catalog"} \subseteq DOMAIN def.menu
  \/ "order" \in DOMAIN def.menu
  \/ "catalog" \in DOMAIN def.menu /\ def.menu.catalog # "list-catalog-categories"
  \/ NodeIds(def) \cap {"save-lead-order", "send-image-1"} # {}
=============================================================================
