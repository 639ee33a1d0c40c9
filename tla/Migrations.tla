----------------------------- MODULE Migrations -----------------------------
(***************************************************************************)
(* The schema migrations of alembic/versions and the way alembic/env.py    *)
(* runs them on the shipped SQLite database.                               *)
(*                                                                         *)
(* A migration is a sequence of statements about objects of the schema: a  *)
(* table, the indexes made with it (one object), and apart from these only *)
(* the columns, indexes and keys that a later migration works on.          *)
(*                                                                         *)
(* There is one transaction per migration, but the driver opens it at the  *)
(* first statement that changes rows: the statements on the schema before  *)
(* that one are committed one by one, and a process that dies leaves them. *)
(* The number of the migration is written last.  A "batch" that has to     *)
(* rebuild its table makes a copy, _alembic_tmp_<table>, before it fills   *)
(* it.                                                                     *)
(***************************************************************************)
EXTENDS Integers, Sequences, SequencesExt

CONSTANTS
    OldProducts,   \* products that a release before migration 0010 stored
    External,      \* the item id in the URL of each, or NoItem
    NoItem,
    Lowered,       \* the URL of each, in lower case
    Category,      \* the category of each
    Slug           \* the slug of each category

ASSUME MigrationsAssumption ==
    /\ DOMAIN External = OldProducts /\ DOMAIN Lowered = OldProducts
    /\ \A p \in OldProducts : Category[p] \in DOMAIN Slug

-----------------------------------------------------------------------------
(* Statements *)

Make(o)   == [op |-> "make", on |-> o]
Unmake(o) == [op |-> "unmake", on |-> o]
Ensure(o) == [op |-> "ensure", on |-> o]
Rows(d)   == [op |-> "rows", on |-> d]

Each(Op(_), s) == [i \in DOMAIN s |-> Op(s[i])]

(* The two statements of each of ts, one table after the other. *)
Pairs(Op(_), ts) == [i \in 1..2 * Len(ts) |-> Op(ts[(i + 1) \div 2])[2 - (i % 2)]]

Table(t)    == <<Make(<<t>>), Make(<<t, "indexes">>)>>
Tables(ts)  == Pairs(Table, ts)
Drop(t)     == <<Unmake(<<t, "indexes">>), Unmake(<<t>>)>>
Drops(ts)   == Pairs(Drop, Reverse(ts))

Copy(t) == <<"_alembic_tmp_", t>>

(* A batch that alembic can only do by rebuilding the table. *)
Rebuild(t, changes) ==
    <<Make(Copy(t)), Rows("copy")>> \o changes \o <<Unmake(Copy(t))>>

Part(t, cs)    == Each(LAMBDA c : <<t, c>>, cs)
Indexes(t, cs) == Each(LAMBDA c : <<t, c, "index">>, cs)

-----------------------------------------------------------------------------
(* The migrations *)

Posts == "scheduled_posts"

Users    == Table("users")
NoUsers  == Drop("users")

Products   == Table("products")
NoProducts == Drop("products")

CaptionTables == <<"caption_batches", "captions">>
Captions   == Tables(CaptionTables)
NoCaptions == Drops(CaptionTables)

PromotionalImages   == Table("promotional_images")
NoPromotionalImages == Drop("promotional_images")

SchedulerTables ==
    <<Make(<<Posts>>), Make(<<Posts, "status">>), Make(<<Posts, "indexes">>),
      Make(<<Posts, "status", "index">>)>>
    \o Table("scheduled_post_executions")
NoSchedulerTables ==
    Drop("scheduled_post_executions")
    \o <<Unmake(<<Posts, "status", "index">>)>> \o Drop(Posts)

AnalyticsEvents   == Table("analytics_events")
NoAnalyticsEvents == Drop("analytics_events")

Confirmation == <<"requires_confirmation", "is_confirmed", "confirmed_at">>

ConfirmationFields ==
    Each(Make, Part(Posts, Confirmation) \o Indexes(Posts, <<"is_confirmed">>))
NoConfirmationFields ==
    Each(Unmake, Indexes(Posts, <<"is_confirmed">>)
                 \o Part(Posts, Reverse(Confirmation)))

StateMachine ==
    Rebuild(Posts, Each(Make, Part(Posts, <<"owner_user_id", "state">>)
                             \o Indexes(Posts, <<"owner_user_id", "state">>)))
    \o <<Rows("states")>>
    \o Each(Unmake, Indexes(Posts, <<"is_confirmed", "status">>))
    \o Rebuild(Posts, Each(Unmake, Part(Posts, Confirmation \o <<"status">>)))
    \o Table("scheduled_post_audits")

NoStateMachine_NoStatus ==    \* mutant: the column status is forgotten as well
    Drop("scheduled_post_audits")
    \o Rebuild(Posts, Each(Make, Part(Posts, Reverse(Confirmation))
                                 \o Indexes(Posts, <<"is_confirmed">>)))
    \o <<Rows("status"), Rows("is_confirmed")>>
    \o Rebuild(Posts, Each(Unmake, Indexes(Posts, <<"state", "owner_user_id">>)
                                   \o Part(Posts, <<"state", "owner_user_id">>)))

(* The index on status, which the upgrade drops, is not made again. *)
NoStateMachine ==
    Drop("scheduled_post_audits")
    \o Rebuild(Posts, Each(Make, Part(Posts, <<"status">> \o Reverse(Confirmation))
                                \o Indexes(Posts, <<"is_confirmed">>)))
    \o <<Rows("status"), Rows("is_confirmed")>>
    \o Rebuild(Posts, Each(Unmake, Indexes(Posts, <<"state", "owner_user_id">>)
                                   \o Part(Posts, <<"state", "owner_user_id">>)))

Locking ==
    Each(Make, Part(Posts, <<"version">>)
              \o Indexes(Posts, <<"version", "owner_state">>))
    \o Table("outbox_events")
NoLocking ==
    Drop("outbox_events")
    \o Rebuild(Posts, Each(Unmake, Indexes(Posts, <<"owner_state", "version">>)
                                   \o Part(Posts, <<"version">>)))

ProductColumns ==
    <<"normalized_url", "marketplace", "external_product_id", "fingerprint",
      "aggregate_version", "category_id">>
ProductTables ==
    <<"product_categories", "product_images", "product_price_histories",
      "product_version_histories">>
ItemIndex == <<"products", "marketplace_external_product_id", "index">>
CategoryKey == <<"products", "fk_category">>

(* Everything before the first row is written asks what is there already.  *)
AggregateColumns ==
    Each(Ensure, Part("products", ProductColumns)
                 \o Indexes("products", ProductColumns) \o <<ItemIndex>>)

AggregateTables_Unasked ==
    Tables(ProductTables)    \* mutant: makes the tables without asking
AggregateTables ==
    Pairs(LAMBDA t : <<Ensure(<<t>>), Ensure(<<t, "indexes">>)>>, ProductTables)

AggregateRows ==
    <<Rows("normalized_url"), Rows("aggregate")>>
    \o Rebuild("products", <<Ensure(CategoryKey)>>)

NoAggregateKey == Rebuild("products", <<Unmake(CategoryKey)>>)
NoAggregateColumns ==
    Rebuild("products", Each(Unmake, Indexes("products", ProductColumns)
                                     \o Part("products", ProductColumns)))
NoAggregate ==
    NoAggregateKey \o Drops(ProductTables) \o <<Unmake(ItemIndex)>>
    \o NoAggregateColumns

ContentTables ==
    <<"prompt_templates", "prompt_variables", "ai_provider_configs">>
ContentVersionTables == <<"generated_contents", "generated_content_versions">>
Content   == Tables(ContentTables)
ContentVersions == Tables(ContentVersionTables)
NoContent == Drops(ContentTables \o ContentVersionTables)

ImageTables ==
    <<"image_templates", "image_provider_configs", "image_assets">>
ImageVersionTables ==
    <<"generated_images", "generated_image_versions", "image_histories">>
Images   == Tables(ImageTables)
ImageVersions == Tables(ImageVersionTables)
NoImages == Drops(ImageTables \o ImageVersionTables)

SocialTables == <<"social_accounts", "platform_credentials">>
JobTables    == <<"publishing_jobs", "publishing_queues">>
HistoryTables ==
    <<"publishing_histories", "media_attachments", "publishing_audit_logs",
      "publishing_dead_letter_queue">>
Social   == Tables(SocialTables)
Jobs     == Tables(JobTables)
Histories == Tables(HistoryTables)
NoSocial == Drops(SocialTables \o JobTables \o HistoryTables)

TenantTables ==
    <<"tenants", "organizations", "workspaces", "workspace_members",
      "workspace_invitations">>
BillingTables ==
    <<"tenant_subscriptions", "payment_transactions", "usage_records", "api_keys",
      "audit_events">>
MessageTables ==
    <<"notification_channels", "notification_events", "content_calendar_items">>
InsightTables == <<"affiliate_ai_insights", "customer_feedback">>
Tenants  == Tables(TenantTables)
Billing  == Tables(BillingTables)
Messages == Tables(MessageTables)
Insights == Tables(InsightTables)
NoTenants == Drops(TenantTables \o BillingTables \o MessageTables \o InsightTables)

(* upgrade() and downgrade() of each revision, in the order of down_revision *)
Upgrades ==
    <<Users, Products, Captions, PromotionalImages, SchedulerTables,
      AnalyticsEvents, ConfirmationFields, StateMachine, Locking,
      AggregateColumns \o AggregateTables \o AggregateRows,
      Content \o ContentVersions, Images \o ImageVersions,
      Social \o Jobs \o Histories, Tenants \o Billing \o Messages \o Insights>>
Downgrades ==
    <<NoUsers, NoProducts, NoCaptions, NoPromotionalImages, NoSchedulerTables,
      NoAnalyticsEvents, NoConfirmationFields, NoStateMachine, NoLocking,
      NoAggregate, NoContent, NoImages, NoSocial, NoTenants>>

HeadRevision == Len(Upgrades)

-----------------------------------------------------------------------------
(* What a statement does to a database: its objects, its products and, of  *)
(* each product, the version rows that migration 0010 wrote.               *)

(* The unique indexes on the item, on the fingerprint and on the slug of a *)
(* category, which only migration 0010 fills.                              *)
Clash(d) ==
    \E p, q \in d.products :
        /\ p # q
        /\ \/ External[p] = External[q] /\ External[p] # NoItem
           \/ External[p] = External[q] /\ Lowered[p] = Lowered[q]
           \/ Category[p] # Category[q] /\ Slug[Category[p]] = Slug[Category[q]]

Fails(s, d) ==
    \/ s.op = "make" /\ s.on \in d.schema
    \/ s.op = "unmake" /\ s.on \notin d.schema
    \/ s.op = "rows" /\ s.on = "aggregate" /\ Clash(d)

Makes(s) == s.op \in {"make", "ensure"}

(* A table takes its parts with it. *)
Takes(s, o) ==
    s.op = "unmake" /\ (IF Len(s.on) > 1 THEN o = s.on ELSE o[1] = s.on[1])

Done(s, d) ==
    CASE Makes(s) -> [d EXCEPT !.schema = @ \cup {s.on}]
      [] s.op = "unmake" ->
           [d EXCEPT !.schema = {o \in @ : ~Takes(s, o)},
                     !.products = IF s.on = <<"products">> THEN {} ELSE @,
                     !.versions = IF s.on = <<"product_version_histories">>
                                  THEN [p \in OldProducts |-> 0] ELSE @]
      [] s.op = "rows" ->
           IF s.on = "aggregate"
           THEN [d EXCEPT !.versions =
                    [p \in OldProducts |-> IF p \in d.products THEN @[p] + 1 ELSE @[p]]]
           ELSE d

(* Whether the driver opens a transaction for a statement. *)
Opens_Never(s) == FALSE    \* mutant: rows are committed one by one as well
Opens(s) == s.op = "rows"
=============================================================================
