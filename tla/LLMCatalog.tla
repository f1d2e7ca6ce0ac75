----------------------------- MODULE LLMCatalog -----------------------------
(***************************************************************************)
(* The catalogue of model providers (internal/application/llm over the     *)
(* repositories of internal/infrastructure/db), the gateway's cache of     *)
(* built adapters (internal/infrastructure/ai/db_gateway.go) and each      *)
(* user's stored selection.                                                *)
(*                                                                         *)
(* Administrators edit, scans resolve an adapter for a call, and users     *)
(* read or store a selection, all at once: every repository call and every *)
(* critical section of the cache is a step.  Reading one provider with its *)
(* models is one step; listing the whole catalogue is the two queries it   *)
(* is in Postgres.                                                         *)
(***************************************************************************)
EXTENDS Naturals, Sequences

CONSTANTS
  Pids, Mids,     \* ids of provider and model rows (uuids, never reused)
  Names, Blank,   \* provider names, "" among them
  Folded, Fold,   \* their lower-cased forms
  ModelNames,     \* model ids sent to a provider
  Confs,          \* adapter type and base URL together
  Keys, NoKey,    \* API keys; NoKey is an empty column
  Keep,           \* a field a patch omits
  None,           \* nothing there
  Prices, Unpriced,
  Creations,      \* the providers administrators create
  SeedName, SeedConf, SeedKey, SeedModel,  \* the provider in the environment
  Patches,        \* the provider patches administrators send
  ModelPatches,   \* the model patches they send
  Admins, Scans, Users,  \* requests that may be in flight at once
  MaxClock        \* bound on writes to the catalogue

Patch == [name : Names \cup {Keep}, conf : Confs \cup {Keep},
          key : Keys \cup {Keep}, enabled : BOOLEAN \cup {Keep}]
Creation == [name : Names \ {Blank}, conf : Confs, key : Keys \cup {NoKey},
             enabled : BOOLEAN]
ModelPatch == [model : ModelNames \cup {Keep}, enabled : BOOLEAN \cup {Keep},
               price : Prices \cup {Unpriced, Keep}]

Refused == "refused"    \* an answer of the gateway's Validate

ASSUME CatalogConstants ==
  /\ Blank \in Names
  /\ Fold \in [Names -> Folded]
  /\ NoKey \notin Keys
  /\ None \notin Names
  /\ SeedName \in Names \ {Blank} /\ SeedConf \in Confs /\ SeedKey \in Keys
  /\ SeedModel \in ModelNames \ {Blank}
  /\ Creations \subseteq Creation
  /\ Patches \subseteq Patch
  /\ ModelPatches \subseteq ModelPatch
  /\ Refused \notin Prices \cup {Unpriced}
  /\ MaxClock \in Nat \ {0}    \* filling the empty catalogue is a write

VARIABLES
  memory,    \* is the in-memory repository wired, instead of Postgres?
  clock,     \* writes to the catalogue so far: the time stamp of the last one
  rows,      \* llm_providers
  models,    \* llm_models
  cache,     \* DBGateway.cache, keyed by lower-cased name
  edit,      \* administrators' requests
  call,      \* scans' calls of Generate
  pick,      \* users' selection requests
  pref,      \* user_llm_preferences
  lastKey    \* history: the key last supplied for each provider

catalogue == <<rows, models, clock>>
vars == <<memory, clock, rows, models, cache, edit, call, pick, pref, lastKey>>

-----------------------------------------------------------------------------

Absent == [is |-> "absent"]     \* an id not used yet
Gone   == [is |-> "gone"]       \* deleted

Row == [is : {"row"}, name : Names, conf : Confs, key : Keys \cup {NoKey},
        enabled : BOOLEAN, stamp : Nat, born : Nat]
ModelRow == [is : {"row"}, pid : Pids, model : ModelNames, enabled : BOOLEAN,
             price : Prices \cup {Unpriced}, born : Nat]
Adapter == [conf : Confs, key : Keys]
Entry == [adapter : Adapter, stamp : Nat]

Here(r) == r.is = "row"

(* GetProviderByName: Postgres answers the row with the least id, the map   *)
(* of the in-memory repository any row with that name.                      *)
Named(n) == {p \in Pids : Here(rows[p]) /\ Fold[rows[p].name] = Fold[n]}
Lookup(n) == {p \in Named(n) : memory \/ \A q \in Named(n) : p <= q}

(* What stops a name: the unique index of Postgres compares names exactly,  *)
(* the in-memory CreateProvider ignores case, its UpdateProvider looks at   *)
(* no other row.                                                            *)
SameName(n, p) == \E q \in Pids \ {p} : Here(rows[q]) /\ rows[q].name = n
CreateRefused(n, p) == IF memory THEN Named(n) # {} ELSE SameName(n, p)
UpdateRefused(n, p) == ~memory /\ SameName(n, p)

ModelsOf(ms, p) == {m \in Mids : Here(ms[m]) /\ ms[m].pid = p}
First(ms, S) == CHOOSE m \in S : \A k \in S : ms[m].born <= ms[k].born

(* Mutant: a field the patch omits overwrites the stored one.               *)
PickBlind(new, old) == new
Pick(new, old) == IF new = Keep THEN old ELSE new

-----------------------------------------------------------------------------

IdleEdit == [pc |-> "idle", op |-> None, id |-> None, old |-> None,
             row |-> None, mid |-> None, patch |-> None, evict |-> <<>>]
IdleCall == [pc |-> "idle", row |-> None, adapter |-> None]
IdlePick == [pc |-> "idle", op |-> None, want |-> None, rows |-> None,
             offers |-> {}, at |-> 0, answer |-> None]

(* seedLLMFromEnv: the migration that fills an empty catalogue, when the    *)
(* environment holds a key, with one provider and its model, both enabled.  *)
SeedRow == [is |-> "row", name |-> SeedName, conf |-> SeedConf, key |-> SeedKey,
            enabled |-> TRUE, stamp |-> 1, born |-> 1]
SeedModelRow(p) == [is |-> "row", pid |-> p, model |-> SeedModel,
                    enabled |-> TRUE, price |-> Unpriced, born |-> 1]
Seeded(p, m) ==
  /\ clock = 1
  /\ rows = [q \in Pids |-> IF q = p THEN SeedRow ELSE Absent]
  /\ models = [k \in Mids |-> IF k = m THEN SeedModelRow(p) ELSE Absent]
  /\ lastKey = [q \in Pids |-> IF q = p THEN SeedKey ELSE NoKey]
Unseeded ==
  /\ clock = 0
  /\ rows = [p \in Pids |-> Absent]
  /\ models = [m \in Mids |-> Absent]
  /\ lastKey = [p \in Pids |-> NoKey]

(* Only Postgres is migrated.                                               *)
Init ==
  /\ memory \in BOOLEAN
  /\ Unseeded \/ (~memory /\ \E p \in Pids, m \in Mids : Seeded(p, m))
  /\ cache = [f \in Folded |-> None]
  /\ edit = [a \in Admins |-> IdleEdit]
  /\ call = [c \in Scans |-> IdleCall]
  /\ pick = [u \in Users |-> IdlePick]
  /\ pref = [u \in Users |-> None]

MayWrite == clock < MaxClock    \* the bound of the model
Tick == MayWrite /\ clock' = clock + 1

-----------------------------------------------------------------------------
(* Administrators.                                                         *)

(* What an insert stores for "enabled": the column's default:true tag makes *)
(* gorm replace FALSE, the zero value, on Create; the map keeps it.         *)
StoredEnabled(enabled) == enabled \/ ~memory

(* CreateProvider: one insert.  The key may be empty; nothing is evicted.   *)
CreateProvider(p, c) ==
  /\ rows[p] = Absent
  /\ ~CreateRefused(c.name, p)
  /\ Tick
  /\ rows' = [rows EXCEPT ![p] =
       [is |-> "row", name |-> c.name, conf |-> c.conf, key |-> c.key,
        enabled |-> StoredEnabled(c.enabled), stamp |-> clock', born |-> clock']]
  /\ lastKey' = [lastKey EXCEPT ![p] = c.key]
  /\ UNCHANGED <<memory, models, cache, edit, call, pick, pref>>

(* The read every edit of an existing provider starts with: a missing       *)
(* provider is answered 404, which changes nothing.                         *)
Load(a, op, p, mid, patch) ==
  /\ edit[a].pc = "idle" /\ MayWrite
  /\ Here(rows[p])
  /\ edit' = [edit EXCEPT ![a] =
       [pc |-> "write", op |-> op, id |-> p, old |-> rows[p].name,
        row |-> IF op = "update" THEN rows[p] ELSE None,
        mid |-> mid, patch |-> patch, evict |-> <<>>]]
  /\ UNCHANGED <<memory, catalogue, cache, call, pick, pref, lastKey>>

Writing(a, op) == edit[a].pc = "write" /\ edit[a].op = op

(* The end of a handler's write: refused, or on to the evictions.           *)
Refuse(a) ==
  /\ edit' = [edit EXCEPT ![a] = IdleEdit]
  /\ UNCHANGED <<memory, catalogue, cache, call, pick, pref, lastKey>>
Evicting(a, names) ==
  edit' = [edit EXCEPT ![a] = [IdleEdit EXCEPT !.pc = "evict", !.evict = names]]

BeginUpdateProvider(a, p, patch) == Load(a, "update", p, None, patch)

(* The row an update leaves: every field as it was read, with the patch     *)
(* applied, but the key as it is stored now unless a new one was given.     *)
(* Mutant: the key that was read is written back like every other field.    *)
PatchedWithOldKey(e, stored, now) ==
  [stored EXCEPT !.name    = Pick(e.patch.name, e.row.name),
                 !.conf    = Pick(e.patch.conf, e.row.conf),
                 !.enabled = Pick(e.patch.enabled, e.row.enabled),
                 !.key     = Pick(e.patch.key, e.row.key),
                 !.stamp   = now]
Patched(e, stored, now) ==
  [stored EXCEPT !.name    = Pick(e.patch.name, e.row.name),
                 !.conf    = Pick(e.patch.conf, e.row.conf),
                 !.enabled = Pick(e.patch.enabled, e.row.enabled),
                 !.key     = Pick(e.patch.key, stored.key),
                 !.stamp   = now]

(* UpdateProvider: refused if the row is gone or its new name is taken.     *)
UpdateProvider(a) ==
  LET e == edit[a]
      n == Pick(e.patch.name, e.row.name)
  IN
  /\ Writing(a, "update")
  /\ \/ /\ ~Here(rows[e.id]) \/ UpdateRefused(n, e.id)
        /\ Refuse(a)
     \/ /\ Here(rows[e.id])
        /\ ~UpdateRefused(n, e.id)
        /\ Tick
        /\ rows' = [rows EXCEPT ![e.id] = Patched(e, @, clock')]
        /\ lastKey' = [lastKey EXCEPT ![e.id] = Pick(e.patch.key, @)]
        /\ Evicting(a, <<e.old, n>>)
        /\ UNCHANGED <<memory, models, cache, call, pick, pref>>

BeginDeleteProvider(a, p) == Load(a, "delete", p, None, None)

(* DeleteProvider: the row and the models it owns go in one transaction.    *)
DeleteProvider(a) ==
  LET e == edit[a] IN
  /\ Writing(a, "delete")
  /\ Tick
  /\ rows' = [rows EXCEPT ![e.id] = Gone]
  /\ models' = [m \in Mids |->
       IF m \in ModelsOf(models, e.id) THEN Gone ELSE models[m]]
  /\ Evicting(a, <<e.old>>)
  /\ UNCHANGED <<memory, cache, call, pick, pref, lastKey>>

BeginAddModel(a, p, mp) ==
  /\ mp.model # Keep /\ mp.model # Blank
  /\ Load(a, "add", p, None, mp)

(* AddModel: no foreign key, so the row is stored whatever became of the    *)
(* provider.  Neither price given means unpriced.                           *)
AddModel(a, mid) ==
  LET e == edit[a] IN
  /\ Writing(a, "add")
  /\ models[mid] = Absent
  /\ Tick
  /\ models' = [models EXCEPT ![mid] =
       [is |-> "row", pid |-> e.id, model |-> e.patch.model,
        enabled |-> StoredEnabled(Pick(e.patch.enabled, TRUE)),
        price |-> Pick(e.patch.price, Unpriced), born |-> clock']]
  /\ Evicting(a, <<e.old>>)
  /\ UNCHANGED <<memory, rows, cache, call, pick, pref, lastKey>>

(* UpdateModel reads the model with its provider, and keeps the target.     *)
BeginUpdateModel(a, p, mid, mp) ==
  /\ mid \in ModelsOf(models, p)
  /\ edit[a].pc = "idle" /\ MayWrite
  /\ Here(rows[p])
  /\ edit' = [edit EXCEPT ![a] =
       [pc |-> "write", op |-> "patch", id |-> p, old |-> rows[p].name,
        row |-> None, mid |-> mid,
        patch |-> [model   |-> Pick(mp.model, models[mid].model),
                   enabled |-> Pick(mp.enabled, models[mid].enabled),
                   price   |-> Pick(mp.price, models[mid].price)],
        evict |-> <<>>]]
  /\ UNCHANGED <<memory, catalogue, cache, call, pick, pref, lastKey>>

(* UpdateModel: an UPDATE of a row deleted meanwhile changes no row; the    *)
(* in-memory repository answers that case with an error instead.            *)
UpdateModel(a) ==
  LET e == edit[a] IN
  /\ Writing(a, "patch")
  /\ \/ /\ ~Here(models[e.mid]) /\ memory
        /\ Refuse(a)
     \/ /\ Here(models[e.mid]) \/ ~memory
        /\ Tick
        /\ models' = [models EXCEPT ![e.mid] =
             IF ~Here(@) THEN @
             ELSE [@ EXCEPT !.model = e.patch.model,
                            !.enabled = e.patch.enabled,
                            !.price = e.patch.price]]
        /\ Evicting(a, <<e.old>>)
        /\ UNCHANGED <<memory, rows, cache, call, pick, pref, lastKey>>

BeginDeleteModel(a, p, mid) ==
  /\ Here(models[mid])
  /\ Load(a, "drop", p, mid, None)

(* DeleteModel: by the model's id alone, whichever provider was named.      *)
DeleteModel(a) ==
  LET e == edit[a] IN
  /\ Writing(a, "drop")
  /\ Tick
  /\ models' = [models EXCEPT ![e.mid] = Gone]
  /\ Evicting(a, <<e.old>>)
  /\ UNCHANGED <<memory, rows, cache, call, pick, pref, lastKey>>

(* invalidate: one eviction at a time; a blank name is passed over.         *)
Invalidate(a) ==
  LET e == edit[a]
      n == Head(e.evict)
      rest == Tail(e.evict)
  IN
  /\ e.pc = "evict"
  /\ cache' = IF n = Blank THEN cache ELSE [cache EXCEPT ![Fold[n]] = None]
  /\ edit' = [edit EXCEPT ![a] =
       IF rest = <<>> THEN IdleEdit ELSE [e EXCEPT !.evict = rest]]
  /\ UNCHANGED <<memory, catalogue, call, pick, pref, lastKey>>

-----------------------------------------------------------------------------
(* Generate: resolve an adapter, then call it.                             *)

(* resolve's read.  An unknown, disabled or keyless provider is refused.    *)
ResolveRead(c, n) ==
  /\ call[c].pc = "idle"
  /\ n # Blank
  /\ \E p \in Lookup(n) :
       /\ rows[p].enabled
       /\ rows[p].key # NoKey
       /\ call' = [call EXCEPT ![c] =
            [pc |-> "look", row |-> rows[p], adapter |-> None]]
  /\ UNCHANGED <<memory, catalogue, cache, edit, pick, pref, lastKey>>

Build(row) == [conf |-> row.conf, key |-> row.key]

(* The cached adapter is used only if it was built from this row version.   *)
(* Mutant: whatever is cached under the name is used.                       *)
HitAnyVersion(c) == cache[Fold[call[c].row.name]] # None
Hit(c) ==
  LET r == call[c].row IN
  /\ cache[Fold[r.name]] # None
  /\ cache[Fold[r.name]].stamp = r.stamp

ResolveLook(c) ==
  LET r == call[c].row IN
  /\ call[c].pc = "look"
  /\ call' = [call EXCEPT ![c] =
       IF Hit(c) THEN [@ EXCEPT !.pc = "calling",
                                !.adapter = cache[Fold[r.name]].adapter]
                 ELSE [@ EXCEPT !.pc = "store", !.adapter = Build(r)]]
  /\ UNCHANGED <<memory, catalogue, cache, edit, pick, pref, lastKey>>

(* The new adapter is stored whatever happened since the row was read.      *)
ResolveStore(c) ==
  LET r == call[c].row IN
  /\ call[c].pc = "store"
  /\ cache' = [cache EXCEPT ![Fold[r.name]] =
       [adapter |-> call[c].adapter, stamp |-> r.stamp]]
  /\ call' = [call EXCEPT ![c].pc = "calling"]
  /\ UNCHANGED <<memory, catalogue, edit, pick, pref, lastKey>>

CallEnds(c) ==
  /\ call[c].pc = "calling"
  /\ call' = [call EXCEPT ![c] = IdleCall]
  /\ UNCHANGED <<memory, catalogue, cache, edit, pick, pref, lastKey>>

-----------------------------------------------------------------------------
(* Options, GetSelection and SetSelection.                                 *)

(* An offer is one enabled model of an enabled provider that has a key.     *)
(* Mutant: disabled models are offered too.                                 *)
OfferableWhenOff(rs, m) ==
  /\ Here(m)
  /\ Here(rs[m.pid]) /\ rs[m.pid].enabled /\ rs[m.pid].key # NoKey
Offerable(rs, m) ==
  /\ Here(m) /\ m.enabled
  /\ Here(rs[m.pid]) /\ rs[m.pid].enabled /\ rs[m.pid].key # NoKey

OffersOf(rs, ms) ==
  {[name |-> rs[ms[m].pid].name, model |-> ms[m].model,
    born |-> rs[ms[m].pid].born, mborn |-> ms[m].born] :
    m \in {k \in Mids : Offerable(rs, ms[k])}}

OptionExists(offers, w) ==
  \E o \in offers : Fold[o.name] = Fold[w.name] /\ o.model = w.model

(* The listing is ordered by creation, providers before models.             *)
FirstOption(offers) ==
  LET f == CHOOSE o \in offers : \A q \in offers :
             \/ o.born < q.born
             \/ o.born = q.born /\ o.mborn <= q.mborn
  IN [name |-> f.name, model |-> f.model]

BeginPick(u, op, w) ==
  /\ pick[u].pc \in {"idle", "answered"}
  /\ pick' = [pick EXCEPT ![u] =
       [IdlePick EXCEPT !.pc = "models", !.op = op, !.want = w,
                        !.rows = IF memory THEN None ELSE rows, !.at = clock]]
  /\ UNCHANGED <<memory, catalogue, cache, edit, call, pref, lastKey>>

(* The second query; the in-memory repository lists both under one lock.    *)
ListModels(u) ==
  LET seen == IF memory THEN rows ELSE pick[u].rows IN
  /\ pick[u].pc = "models"
  /\ pick' = [pick EXCEPT ![u] =
       [@ EXCEPT !.pc = "choose", !.rows = None,
                 !.offers = OffersOf(seen, models),
                 !.at = IF memory THEN clock ELSE pick[u].at]]
  /\ UNCHANGED <<memory, catalogue, cache, edit, call, pref, lastKey>>

Answer(u, w) ==
  pick' = [pick EXCEPT ![u] =
    [@ EXCEPT !.pc = "answered", !.answer = w, !.offers = {}]]

(* GetSelection: the stored choice if it is still offered, else the first.  *)
GetSelection(u) ==
  LET os == pick[u].offers IN
  /\ pick[u].pc = "choose" /\ pick[u].op = "get"
  /\ Answer(u, IF pref[u] # None /\ OptionExists(os, pref[u]) THEN pref[u]
               ELSE IF os # {} THEN FirstOption(os) ELSE None)
  /\ UNCHANGED <<memory, catalogue, cache, edit, call, pref, lastKey>>

(* SetSelection: stored only if offered; a refusal stores nothing.          *)
SetSelection(u) ==
  LET w == pick[u].want
      ok == OptionExists(pick[u].offers, w)
  IN
  /\ pick[u].pc = "choose" /\ pick[u].op = "set"
  /\ pref' = IF ok THEN [pref EXCEPT ![u] = w] ELSE pref
  /\ Answer(u, IF ok THEN w ELSE None)
  /\ UNCHANGED <<memory, catalogue, cache, edit, call, lastKey>>

Wanted == [name : Names \ {Blank}, model : ModelNames \ {Blank}]

-----------------------------------------------------------------------------

AdminNext ==
  \/ \E p \in Pids, c \in Creations : CreateProvider(p, c)
  \/ \E a \in Admins :
       \/ \E p \in Pids :
            \/ \E patch \in Patches : BeginUpdateProvider(a, p, patch)
            \/ BeginDeleteProvider(a, p)
            \/ \E mp \in ModelPatches : BeginAddModel(a, p, mp)
            \/ \E m \in Mids :
                 \/ \E mp \in ModelPatches : BeginUpdateModel(a, p, m, mp)
                 \/ BeginDeleteModel(a, p, m)
       \/ UpdateProvider(a) \/ DeleteProvider(a)
       \/ \E m \in Mids : AddModel(a, m)
       \/ UpdateModel(a) \/ DeleteModel(a)
       \/ Invalidate(a)

CallNext ==
  \E c \in Scans :
    \/ \E n \in Names : ResolveRead(c, n)
    \/ ResolveLook(c) \/ ResolveStore(c) \/ CallEnds(c)

PickNext ==
  \E u \in Users :
    \/ BeginPick(u, "get", None)
    \/ \E w \in Wanted : BeginPick(u, "set", w)
    \/ ListModels(u) \/ GetSelection(u) \/ SetSelection(u)

Next == AdminNext \/ CallNext \/ PickNext

Spec == Init /\ [][Next]_vars

-----------------------------------------------------------------------------
(* Properties.                                                             *)

(* Every variable keeps the shape the code gives it.                        *)
Choice == [name : Names, model : ModelNames]
Offer == [name : Names, model : ModelNames, born : Nat, mborn : Nat]
EditOf == [pc : {"idle", "write", "evict"},
           op : {"update", "delete", "add", "patch", "drop", None}, id : Pids \cup {None},
           old : Names \cup {None}, row : Row \cup {None},
           mid : Mids \cup {None},
           patch : Patches \cup ModelPatches \cup {None}
                   \cup [model : ModelNames, enabled : BOOLEAN,
                         price : Prices \cup {Unpriced}],
           evict : Seq(Names)]
CallOf == [pc : {"idle", "look", "store", "calling"}, row : Row \cup {None},
           adapter : Adapter \cup {None}]
TypeOK ==
  /\ memory \in BOOLEAN
  /\ clock \in 0 .. MaxClock
  /\ rows \in [Pids -> Row \cup {Absent, Gone}]
  /\ models \in [Mids -> ModelRow \cup {Absent, Gone}]
  /\ cache \in [Folded -> Entry \cup {None}]
  /\ edit \in [Admins -> EditOf]
  /\ call \in [Scans -> CallOf]
  /\ pref \in [Users -> Choice \cup {None}]
  /\ lastKey \in [Pids -> Keys \cup {NoKey}]
  /\ \A u \in Users : /\ pick[u].pc \in {"idle", "models", "choose", "answered"}
                      /\ pick[u].offers \subseteq Offer
                      /\ pick[u].at \in Nat
                      /\ pick[u].answer \in Choice \cup {None}

(* A call goes out with the adapter, so with the endpoint and the key, of   *)
(* the row version resolve read for it: an adapter a slower resolve stored  *)
(* after an edit evicted the cache is never taken for the edited provider.  *)
CallUsesTheRowItRead ==
  \A c \in Scans : call[c].pc \in {"store", "calling"} =>
                     call[c].adapter = Build(call[c].row)

(* What every resolve and every edit in flight keeps: its place in the code *)
(* and the rows it holds, and above all the row of the adapter it calls.    *)
ResolveInv == TypeOK /\ CallUsesTheRowItRead

(* A key an administrator set stays until another key is supplied, whatever *)
(* edits of the same provider's other fields overlap with it: UpdateProvider*)
(* writes back every other field it read, but not the key.                  *)
KeysSurviveOtherEdits ==
  \A p \in Pids : Here(rows[p]) => rows[p].key = lastKey[p]

(* Validate of the gateway, on the provider the name resolves to.           *)
Validate(p, m) ==
  LET S == {k \in ModelsOf(models, p) : models[k].model = m} IN
  IF ~rows[p].enabled \/ rows[p].key = NoKey THEN Refused
  ELSE IF m = Blank THEN Unpriced
  ELSE IF S = {} THEN Refused
  ELSE IF models[First(models, S)].enabled THEN models[First(models, S)].price
  ELSE Refused

Runs(w) == /\ w.name # Blank
           /\ Named(w.name) # {}
           /\ \A p \in Lookup(w.name) : Validate(p, w.model) # Refused

(* Nothing in the catalogue is blank or offered under two guises.           *)
Unambiguous ==
  /\ \A p \in Pids : Here(rows[p]) =>
       rows[p].name # Blank /\ Named(rows[p].name) = {p}
  /\ \A m, k \in Mids : /\ Here(models[m]) /\ Here(models[k])
                         /\ models[m].pid = models[k].pid
                         /\ models[m].model = models[k].model => m = k

Fresh(u) == /\ pick[u].pc = "answered" /\ pick[u].answer # None
            /\ pick[u].at = clock

(* A selection that was answered or stored, and that no edit has overtaken  *)
(* since the catalogue was read, passes the check that starts a scan, as    *)
(* long as the catalogue has no blank or repeated names: the stored choice  *)
(* of a model since removed or disabled is never handed out.                *)
SelectionRuns ==
  Unambiguous => \A u \in Users : Fresh(u) => Runs(pick[u].answer)

(* The same without that proviso, which is what the doc comment of          *)
(* GetSelection promises: "a user is never handed a dead selection".        *)
NeverADeadSelection ==
  \A u \in Users : Fresh(u) => Runs(pick[u].answer)
=============================================================================
