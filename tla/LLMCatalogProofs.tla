-------------------------- MODULE LLMCatalogProofs --------------------------
(***************************************************************************)
(* Theorems about LLMCatalog, for every set of providers, names, keys,     *)
(* administrators and scans.                                               *)
(***************************************************************************)
EXTENDS LLMCatalog, WellFoundedInduction, TLAPS

USE CatalogConstants

-----------------------------------------------------------------------------
(* The inductive invariant.                                                *)

(* An update holds the row it read and a patch somebody sent.               *)
UpdateFine(e) == (e.pc = "write" /\ e.op = "update") =>
                   e.id \in Pids /\ e.row \in Row /\ e.patch \in Patches

EditsFine == DOMAIN edit = Admins /\ \A a \in Admins : UpdateFine(edit[a])

(* Rows, cache and calls are what the code makes them.                      *)
Typed ==
  /\ clock \in Nat
  /\ rows \in [Pids -> Row \cup {Absent, Gone}]
  /\ cache \in [Folded -> Entry \cup {None}]
  /\ EditsFine
  /\ call \in [Scans -> CallOf]
  /\ \A c \in Scans : call[c].pc # "idle" => call[c].row \in Row /\ call[c].row.key # NoKey
  /\ \A c \in Scans : call[c].pc \in {"store", "calling"} => call[c].adapter \in Adapter
  /\ lastKey \in [Pids -> Keys \cup {NoKey}]

(* A version of a provider is its adapter with the stamp of the write that  *)
(* left it: in the table, held by a call, or in the cache.                  *)
VersionOf(r) == [stamp |-> r.stamp, adapter |-> Build(r)]

Versions == {VersionOf(rows[p]) : p \in {q \in Pids : Here(rows[q])}}
            \cup {VersionOf(call[c].row) : c \in {d \in Scans : call[d].pc # "idle"}}
            \cup {cache[f] : f \in {g \in Folded : cache[g] # None}}

(* Each write stamps the row with a time of its own, so a stamp identifies  *)
(* one version wherever it has been copied to.                              *)
StampsIdentify == /\ \A v \in Versions : v.stamp \in 0 .. clock
                  /\ \A v, w \in Versions : v.stamp = w.stamp => v = w

CatalogInv == Typed /\ StampsIdentify /\ CallUsesTheRowItRead /\ KeysSurviveOtherEdits

-----------------------------------------------------------------------------
(* Versions.                                                               *)

(* A step that makes no version keeps the rest.                             *)
LEMMA NoNewVersion ==
  ASSUME Typed, StampsIdentify, Versions' \subseteq Versions,
         clock' = clock \/ clock' = clock + 1
  PROVE  StampsIdentify'
BY DEF Typed, StampsIdentify

(* A step that makes one stamps it with a time nothing else has.            *)
LEMMA OneNewVersion ==
  ASSUME Typed, StampsIdentify, NEW v, Versions' \subseteq Versions \cup {v},
         clock' = clock + 1, v.stamp = clock'
  PROVE  StampsIdentify'
<1>1. \A w \in Versions : w.stamp \in 0 .. clock /\ w.stamp # v.stamp
  BY DEF Typed, StampsIdentify
<1>. QED
  BY <1>1 DEF Typed, StampsIdentify

LEMMA RowVersion == ASSUME NEW p \in Pids, Here(rows[p]) PROVE VersionOf(rows[p]) \in Versions
BY DEF Versions

LEMMA CallVersion ==
  ASSUME NEW c \in Scans, call[c].pc # "idle" PROVE VersionOf(call[c].row) \in Versions
BY DEF Versions

LEMMA CacheVersion ==
  ASSUME NEW f \in Folded, cache[f] # None PROVE cache[f] \in Versions
BY DEF Versions

(* What stays keeps its version.                                            *)
LEMMA SameVersions ==
  ASSUME UNCHANGED <<rows, call, cache>> PROVE Versions' = Versions
BY DEF Versions

(* One row written, and nothing copied.                                     *)
LEMMA RowWritten ==
  ASSUME Typed, NEW p \in Pids, NEW r \in Row, rows' = [rows EXCEPT ![p] = r],
         UNCHANGED <<call, cache>>
  PROVE  Versions' \subseteq Versions \cup {VersionOf(r)}
<1>1. \A q \in Pids : rows'[q] = IF q = p THEN r ELSE rows[q]
  BY DEF Typed
<1>. QED
  BY <1>1 DEF Versions

LEMMA RowDeleted ==
  ASSUME Typed, NEW p, rows' = [rows EXCEPT ![p] = Gone], UNCHANGED <<call, cache>>
  PROVE  Versions' \subseteq Versions
<1>1. \A q \in Pids : rows'[q] = IF q = p THEN Gone ELSE rows[q]
  BY DEF Typed
<1>2. ~ Here(Gone)
  BY DEF Here, Gone
<1>. QED
  BY <1>1, <1>2 DEF Versions

-----------------------------------------------------------------------------
(* Steps.                                                                  *)

(* One administrator's request moves on, and does not hold an update.       *)
LEMMA EditMoves ==
  ASSUME EditsFine, NEW a \in Admins, NEW e, edit' = [edit EXCEPT ![a] = e], UpdateFine(e)
  PROVE  EditsFine'
BY DEF EditsFine

LEMMA IdleEditFine == /\ UpdateFine(IdleEdit)
                      /\ \A n : UpdateFine([IdleEdit EXCEPT !.pc = "evict", !.evict = n])
<1>1. IdleEdit.pc = "idle"
  BY DEF IdleEdit
<1>2. \A n : [IdleEdit EXCEPT !.pc = "evict", !.evict = n].pc = "evict"
  BY DEF IdleEdit
<1>. QED
  BY <1>1, <1>2 DEF UpdateFine

(* A step that neither writes a provider nor resolves or caches an adapter. *)
LEMMA QuietStep ==
  ASSUME CatalogInv, UNCHANGED <<rows, call, cache, lastKey>>,
         clock' = clock \/ clock' = clock + 1, EditsFine'
  PROVE  CatalogInv'
<1>1. Typed'
  BY DEF CatalogInv, Typed
<1>2. StampsIdentify'
  BY SameVersions, NoNewVersion DEF CatalogInv
<1>3. CallUsesTheRowItRead' /\ KeysSurviveOtherEdits'
  BY DEF CatalogInv, CallUsesTheRowItRead, KeysSurviveOtherEdits
<1>. QED
  BY <1>1, <1>2, <1>3 DEF CatalogInv

(* An insert or an update leaves a row with a stamp of its own, and the key *)
(* that was supplied last.                                                  *)
LEMMA RowStep ==
  ASSUME CatalogInv, NEW p \in Pids, NEW r \in Row, rows' = [rows EXCEPT ![p] = r],
         UNCHANGED <<call, cache>>, clock' = clock + 1, r.stamp = clock', EditsFine',
         lastKey' = [lastKey EXCEPT ![p] = r.key]
  PROVE  CatalogInv'
<1>1. Typed'
  BY DEF CatalogInv, Typed, Row
<1>2. VersionOf(r).stamp = clock'
  BY DEF VersionOf
<1>3. StampsIdentify'
  BY <1>2, RowWritten, OneNewVersion DEF CatalogInv
<1>4. CallUsesTheRowItRead'
  BY DEF CatalogInv, CallUsesTheRowItRead
<1>5. KeysSurviveOtherEdits'
  BY DEF CatalogInv, Typed, KeysSurviveOtherEdits
<1>. QED
  BY <1>1, <1>3, <1>4, <1>5 DEF CatalogInv

(* Whatever was asked for, an insert stores a boolean.                      *)
LEMMA StoredIsBoolean == \A v : StoredEnabled(v) \in BOOLEAN
<1>. TAKE v
<1>1. CASE v \/ ~memory
  BY <1>1 DEF StoredEnabled
<1>2. CASE ~(v \/ ~memory)
  BY <1>2 DEF StoredEnabled
<1>. QED
  BY <1>1, <1>2

LEMMA CreateStep ==
  ASSUME CatalogInv, NEW p \in Pids, NEW c \in Creations, CreateProvider(p, c)
  PROVE  CatalogInv'
<1>. DEFINE r == [is |-> "row", name |-> c.name, conf |-> c.conf, key |-> c.key,
                  enabled |-> StoredEnabled(c.enabled),
                  stamp |-> clock', born |-> clock']
<1>1. clock' = clock + 1 /\ clock' \in Nat
  BY DEF CreateProvider, Tick, CatalogInv, Typed
<1>2. c \in Creation
  OBVIOUS
<1>3. r \in Row /\ r.stamp = clock' /\ r.key = c.key
  BY <1>1, <1>2, StoredIsBoolean DEF Creation, Row
<1>4. /\ rows' = [rows EXCEPT ![p] = r] /\ lastKey' = [lastKey EXCEPT ![p] = c.key]
      /\ UNCHANGED <<call, cache, edit>>
  BY DEF CreateProvider
<1>. HIDE DEF r
<1>5. EditsFine'
  BY <1>4 DEF CatalogInv, Typed, EditsFine
<1>. QED
  BY <1>1, <1>3, <1>4, <1>5, RowStep

LEMMA UpdateStep ==
  ASSUME CatalogInv, NEW a \in Admins, UpdateProvider(a)
  PROVE  CatalogInv'
<1>. DEFINE e == edit[a]
<1>1. e.id \in Pids /\ e.row \in Row /\ e.patch \in Patch
  BY DEF UpdateProvider, Writing, CatalogInv, Typed, EditsFine, UpdateFine
<1>2. CASE Refuse(a)
  <2>1. EditsFine'
    BY <1>2, EditMoves, IdleEditFine DEF Refuse, CatalogInv, Typed
  <2>. QED
    BY <1>2, <2>1, QuietStep DEF Refuse, catalogue
<1>3. CASE ~ Refuse(a)
  <2>. DEFINE n == Pick(e.patch.name, e.row.name)
              old == rows[e.id]
              r == Patched(e, old, clock')
  <2>1. /\ Here(old) /\ clock' = clock + 1
        /\ rows' = [rows EXCEPT ![e.id] = r]
        /\ lastKey' = [lastKey EXCEPT ![e.id] = Pick(e.patch.key, lastKey[e.id])]
        /\ Evicting(a, <<e.old, n>>) /\ UNCHANGED <<call, cache>>
    BY <1>3 DEF UpdateProvider, Tick
  <2>2. old \in Row
    BY <1>1, <2>1 DEF CatalogInv, Typed, Here, Absent, Gone
  <2>3. clock' \in Nat
    BY <2>1 DEF CatalogInv, Typed
  <2>4. /\ Pick(e.patch.name, e.row.name) \in Names
        /\ Pick(e.patch.conf, e.row.conf) \in Confs
        /\ Pick(e.patch.enabled, e.row.enabled) \in BOOLEAN
        /\ Pick(e.patch.key, old.key) \in Keys \cup {NoKey}
    BY <1>1, <2>2 DEF Pick, Patch, Row
  <2>. HIDE DEF e, old
  <2>5. /\ r \in Row /\ r.stamp = clock' /\ r.key = Pick(e.patch.key, old.key)
    BY <2>2, <2>3, <2>4 DEF Patched, Row
  <2>6. lastKey[e.id] = old.key
    BY <1>1, <2>1 DEF CatalogInv, KeysSurviveOtherEdits, old
  <2>7. EditsFine'
    BY <2>1, EditMoves, IdleEditFine DEF Evicting, CatalogInv, Typed
  <2>. HIDE DEF r
  <2>. QED
    BY <1>1, <2>1, <2>5, <2>6, <2>7, RowStep
<1>. QED
  BY <1>2, <1>3

LEMMA DeleteStep ==
  ASSUME CatalogInv, NEW a \in Admins, DeleteProvider(a)
  PROVE  CatalogInv'
<1>1. /\ clock' = clock + 1 /\ rows' = [rows EXCEPT ![edit[a].id] = Gone]
      /\ Evicting(a, <<edit[a].old>>) /\ UNCHANGED <<call, cache, lastKey>>
  BY DEF DeleteProvider, Tick
<1>2. EditsFine'
  BY <1>1, EditMoves, IdleEditFine DEF Evicting, CatalogInv, Typed
<1>3. Typed'
  <2>. DEFINE T == Row \cup {Absent, Gone}
             p == edit[a].id
  <2>0. rows \in [Pids -> T] /\ Gone \in T /\ rows' = [rows EXCEPT ![p] = Gone]
    BY <1>1 DEF CatalogInv, Typed
  <2>. HIDE DEF T, p
  <2>a. rows' \in [Pids -> T]
    BY <2>0
  <2>1. rows' \in [Pids -> Row \cup {Absent, Gone}] /\ clock' \in Nat
    BY <1>1, <2>a DEF CatalogInv, Typed, T
  <2>2. UNCHANGED <<call, cache, lastKey>> /\ Typed
    BY <1>1 DEF CatalogInv
  <2>. QED
    BY <1>2, <2>1, <2>2 DEF Typed
<1>4. StampsIdentify'
  BY <1>1, RowDeleted, NoNewVersion DEF CatalogInv
<1>5. CallUsesTheRowItRead'
  BY <1>1 DEF CatalogInv, CallUsesTheRowItRead
<1>6. KeysSurviveOtherEdits'
  <2>1. ~ Here(Gone)
    BY DEF Here, Gone
  <2>. QED
    BY <1>1, <2>1 DEF CatalogInv, Typed, KeysSurviveOtherEdits
<1>. QED
  BY <1>3, <1>4, <1>5, <1>6 DEF CatalogInv
(* Requests that hold no update, and the reads before a write.              *)
LEMMA LoadStep ==
  ASSUME CatalogInv, NEW a \in Admins, NEW op, NEW p \in Pids, NEW mid, NEW patch,
         Load(a, op, p, mid, patch), op = "update" => patch \in Patches
  PROVE  CatalogInv'
<1>. DEFINE e == [pc |-> "write", op |-> op, id |-> p, old |-> rows[p].name,
                  row |-> IF op = "update" THEN rows[p] ELSE None,
                  mid |-> mid, patch |-> patch, evict |-> <<>>]
<1>1. /\ edit' = [edit EXCEPT ![a] = e] /\ Here(rows[p])
      /\ UNCHANGED <<rows, clock, call, cache, lastKey>>
  BY DEF Load, catalogue
<1>2. rows[p] \in Row
  BY <1>1 DEF CatalogInv, Typed, Here, Absent, Gone
<1>3. UpdateFine(e)
  BY <1>2 DEF UpdateFine
<1>. HIDE DEF e
<1>4. EditsFine'
  BY <1>1, <1>3, EditMoves DEF CatalogInv, Typed
<1>. QED
  BY <1>1, <1>4, QuietStep

LEMMA BeginUpdateModelStep ==
  ASSUME CatalogInv, NEW a \in Admins, NEW p \in Pids, NEW m \in Mids,
         NEW mp \in ModelPatches, BeginUpdateModel(a, p, m, mp)
  PROVE  CatalogInv'
<1>. DEFINE e == [pc |-> "write", op |-> "patch", id |-> p, old |-> rows[p].name,
                  row |-> None, mid |-> m,
                  patch |-> [model   |-> Pick(mp.model, models[m].model),
                             enabled |-> Pick(mp.enabled, models[m].enabled),
                             price   |-> Pick(mp.price, models[m].price)],
                  evict |-> <<>>]
<1>1. /\ edit' = [edit EXCEPT ![a] = e]
      /\ UNCHANGED <<rows, clock, call, cache, lastKey>>
  BY DEF BeginUpdateModel, catalogue
<1>2. UpdateFine(e)
  BY DEF UpdateFine
<1>. HIDE DEF e
<1>3. EditsFine'
  BY <1>1, <1>2, EditMoves DEF CatalogInv, Typed
<1>. QED
  BY <1>1, <1>3, QuietStep

(* A write of a model touches no provider and no adapter.                   *)
LEMMA ModelStep ==
  ASSUME CatalogInv, NEW a \in Admins,
         \/ \E m \in Mids : AddModel(a, m)
         \/ UpdateModel(a)
         \/ DeleteModel(a)
  PROVE  CatalogInv'
<1>1. UNCHANGED <<rows, call, cache, lastKey>> /\ (clock' = clock \/ clock' = clock + 1)
  BY DEF AddModel, UpdateModel, DeleteModel, Refuse, Tick, catalogue
<1>2. \/ edit' = [edit EXCEPT ![a] = IdleEdit]
      \/ \E n : edit' = [edit EXCEPT ![a] = [IdleEdit EXCEPT !.pc = "evict", !.evict = n]]
  BY DEF AddModel, UpdateModel, DeleteModel, Refuse, Evicting
<1>3. EditsFine'
  BY <1>2, EditMoves, IdleEditFine DEF CatalogInv, Typed
<1>. QED
  BY <1>1, <1>3, QuietStep

(* An eviction forgets one cached adapter at most.                          *)
LEMMA InvalidateStep ==
  ASSUME CatalogInv, NEW a \in Admins, Invalidate(a)
  PROVE  CatalogInv'
<1>. DEFINE f == Fold[Head(edit[a].evict)]
<1>1. /\ cache' = cache \/ cache' = [cache EXCEPT ![f] = None]
      /\ UNCHANGED <<rows, call, clock, lastKey>> /\ edit[a].pc = "evict"
  BY DEF Invalidate, catalogue
<1>. HIDE DEF f
<1>2. EditsFine'
  <2>1. CASE edit' = [edit EXCEPT ![a] = IdleEdit]
    BY <2>1, EditMoves, IdleEditFine DEF CatalogInv, Typed
  <2>2. CASE edit' = [edit EXCEPT ![a] = [edit[a] EXCEPT !.evict = Tail(edit[a].evict)]]
    <3>. DEFINE e == [edit[a] EXCEPT !.evict = Tail(edit[a].evict)]
    <3>1. e.pc = "evict" \/ e.pc # "write"
      BY <1>1
    <3>2. UpdateFine(e)
      BY <3>1 DEF UpdateFine
    <3>. HIDE DEF e
    <3>. QED
      BY <2>2, <3>2, EditMoves DEF CatalogInv, Typed, e
  <2>. QED
    BY <2>1, <2>2 DEF Invalidate
<1>3. cache \in [Folded -> Entry \cup {None}]
  BY DEF CatalogInv, Typed
<1>4. cache' \in [Folded -> Entry \cup {None}]
  BY <1>1, <1>3
<1>5. Typed'
  BY <1>1, <1>2, <1>4 DEF CatalogInv, Typed
<1>6. \A g \in Folded : cache'[g] = cache[g] \/ cache'[g] = None
  BY <1>1, <1>3
<1>7. Versions' \subseteq Versions
  BY <1>1, <1>6 DEF Versions
<1>8. StampsIdentify'
  BY <1>1, <1>7, NoNewVersion DEF CatalogInv
<1>9. CallUsesTheRowItRead' /\ KeysSurviveOtherEdits'
  BY <1>1 DEF CatalogInv, CallUsesTheRowItRead, KeysSurviveOtherEdits
<1>. QED
  BY <1>5, <1>8, <1>9 DEF CatalogInv

(* A call moves on, with a row that was there already and, once it has one, *)
(* the adapter of that row.                                                 *)
CallFine(k) ==
  /\ k \in CallOf
  /\ k.pc # "idle" => k.row \in Row /\ k.row.key # NoKey /\ VersionOf(k.row) \in Versions
  /\ k.pc \in {"store", "calling"} => k.adapter \in Adapter /\ k.adapter = Build(k.row)

LEMMA CallStep ==
  ASSUME CatalogInv, NEW c \in Scans, NEW k, CallFine(k), call' = [call EXCEPT ![c] = k],
         UNCHANGED <<rows, clock, lastKey, edit>>,
         cache' \in [Folded -> Entry \cup {None}],
         \A f \in Folded : cache'[f] = cache[f] \/ cache'[f] = None
                             \/ cache'[f] \in Versions
  PROVE  CatalogInv'
<1>1. call \in [Scans -> CallOf]
  BY DEF CatalogInv, Typed
<1>2. \A d \in Scans : call'[d] = IF d = c THEN k ELSE call[d]
  BY <1>1
<1>3. call' \in [Scans -> CallOf]
  BY <1>1 DEF CallFine
<1>4. EditsFine'
  BY DEF CatalogInv, Typed, EditsFine
<1>5. \A d \in Scans : call'[d].pc # "idle" => call'[d].row \in Row /\ call'[d].row.key # NoKey
  BY <1>2 DEF CatalogInv, Typed, CallFine
<1>6. \A d \in Scans : call'[d].pc \in {"store", "calling"} => call'[d].adapter \in Adapter
  BY <1>2 DEF CatalogInv, Typed, CallFine
<1>7. Typed'
  BY <1>3, <1>4, <1>5, <1>6 DEF CatalogInv, Typed
<1>8. Versions' \subseteq Versions
  <2>1. \A d \in Scans : call'[d].pc # "idle" => VersionOf(call'[d].row) \in Versions
    BY <1>2, CallVersion DEF CallFine
  <2>2. \A f \in Folded : cache'[f] # None => cache'[f] \in Versions
    BY CacheVersion
  <2>3. \A p \in Pids : Here(rows'[p]) => VersionOf(rows'[p]) \in Versions
    BY RowVersion
  <2>4. ASSUME NEW v \in Versions'
        PROVE  \/ \E d \in Scans : call'[d].pc # "idle" /\ v = VersionOf(call'[d].row)
               \/ \E f \in Folded : cache'[f] # None /\ v = cache'[f]
               \/ \E p \in Pids : Here(rows'[p]) /\ v = VersionOf(rows'[p])
    BY DEF Versions, VersionOf, Here, Build
  <2>. QED
    BY <2>1, <2>2, <2>3, <2>4
<1>9. StampsIdentify'
  BY <1>8, NoNewVersion DEF CatalogInv
<1>10. CallUsesTheRowItRead'
  BY <1>2 DEF CatalogInv, CallUsesTheRowItRead, CallFine
<1>11. KeysSurviveOtherEdits'
  BY DEF CatalogInv, KeysSurviveOtherEdits
<1>. QED
  BY <1>7, <1>9, <1>10, <1>11 DEF CatalogInv

(* What a call in flight holds before it moves.                             *)
LEMMA CallIsFine ==
  ASSUME CatalogInv, NEW c \in Scans PROVE CallFine(call[c])
BY CallVersion DEF CatalogInv, Typed, CallFine, CallUsesTheRowItRead

LEMMA ReadStep ==
  ASSUME CatalogInv, NEW c \in Scans, NEW n \in Names, ResolveRead(c, n)
  PROVE  CatalogInv'
<1>1. PICK p \in Lookup(n) : /\ rows[p].key # NoKey
                             /\ call' = [call EXCEPT ![c] =
                                  [pc |-> "look", row |-> rows[p], adapter |-> None]]
  BY DEF ResolveRead
<1>2. p \in Pids /\ Here(rows[p])
  BY DEF Lookup, Named
<1>3. rows[p] \in Row /\ VersionOf(rows[p]) \in Versions
  BY <1>2, RowVersion DEF CatalogInv, Typed, Here, Absent, Gone
<1>. DEFINE k == [pc |-> "look", row |-> rows[p], adapter |-> None]
<1>4. k \in CallOf
  BY <1>3 DEF CallOf
<1>5. CallFine(k)
  BY <1>1, <1>3, <1>4 DEF CallFine
<1>. HIDE DEF k
<1>6. call' = [call EXCEPT ![c] = k] /\ UNCHANGED <<rows, clock, lastKey, edit, cache>>
  BY <1>1 DEF ResolveRead, catalogue, k
<1>7. cache' \in [Folded -> Entry \cup {None}]
  BY <1>6 DEF CatalogInv, Typed
<1>. QED
  BY <1>5, <1>6, <1>7, CallStep

(* A hit has the stamp of the row the call holds, so it is that version.    *)
LEMMA HitIsTheVersion ==
  ASSUME CatalogInv, NEW c \in Scans, call[c].pc = "look", Hit(c)
  PROVE  /\ cache[Fold[call[c].row.name]].adapter = Build(call[c].row)
         /\ cache[Fold[call[c].row.name]].adapter \in Adapter
<1>. DEFINE f == Fold[call[c].row.name]
<1>1. call[c].row \in Row
  BY DEF CatalogInv, Typed
<1>2. call[c].row.name \in Names
  BY <1>1 DEF Row
<1>3. f \in Folded
  BY <1>2
<1>4. cache[f] # None /\ cache[f].stamp = call[c].row.stamp
  BY DEF Hit
<1>. HIDE DEF f
<1>5. cache[f] \in Entry
  BY <1>3, <1>4 DEF CatalogInv, Typed
<1>6. cache[f] \in Versions /\ VersionOf(call[c].row) \in Versions
  BY <1>3, <1>4, CacheVersion, CallVersion
<1>7. VersionOf(call[c].row).stamp = call[c].row.stamp
  BY DEF VersionOf
<1>8. cache[f] = VersionOf(call[c].row)
  BY <1>4, <1>6, <1>7 DEF CatalogInv, StampsIdentify
<1>9. cache[f].adapter = Build(call[c].row) /\ cache[f].adapter \in Adapter
  BY <1>5, <1>8 DEF VersionOf, Entry
<1>. QED
  BY <1>9 DEF f

LEMMA BuildIsAdapter ==
  ASSUME NEW r \in Row, r.key # NoKey PROVE Build(r) \in Adapter
BY DEF Row, Build, Adapter

LEMMA LookStep ==
  ASSUME CatalogInv, NEW c \in Scans, ResolveLook(c)
  PROVE  CatalogInv'
<1>. DEFINE r == call[c].row
           hit == cache[Fold[r.name]].adapter
           k == IF Hit(c) THEN [call[c] EXCEPT !.pc = "calling", !.adapter = hit]
                          ELSE [call[c] EXCEPT !.pc = "store", !.adapter = Build(r)]
<1>1. /\ call[c].pc = "look" /\ call' = [call EXCEPT ![c] = k]
      /\ UNCHANGED <<rows, clock, lastKey, edit, cache>>
  BY DEF ResolveLook, catalogue
<1>2. /\ call[c] \in CallOf /\ r \in Row /\ r.key # NoKey /\ VersionOf(r) \in Versions
  BY <1>1, CallIsFine DEF CallFine
<1>3. Build(r) \in Adapter
  BY <1>2, BuildIsAdapter
<1>4. Hit(c) => hit = Build(r)
  BY <1>1, HitIsTheVersion
<1>5. k.row = r /\ k.adapter = Build(r) /\ k.pc \in {"store", "calling"} /\ k \in CallOf
  <2>1. CASE Hit(c)
    BY <1>2, <1>3, <1>4, <2>1 DEF CallOf
  <2>2. CASE ~ Hit(c)
    BY <1>2, <1>3, <2>2 DEF CallOf
  <2>. QED
    BY <2>1, <2>2
<1>6. cache' \in [Folded -> Entry \cup {None}]
  BY <1>1 DEF CatalogInv, Typed
<1>. HIDE DEF k, r, hit
<1>7. CallFine(k)
  BY <1>2, <1>3, <1>5 DEF CallFine
<1>. QED
  BY <1>1, <1>6, <1>7, CallStep

LEMMA StoreStep ==
  ASSUME CatalogInv, NEW c \in Scans, ResolveStore(c)
  PROVE  CatalogInv'
<1>. DEFINE r == call[c].row
           k == [call[c] EXCEPT !.pc = "calling"]
           v == [adapter |-> call[c].adapter, stamp |-> r.stamp]
           f == Fold[r.name]
<1>1. /\ call[c].pc = "store" /\ call' = [call EXCEPT ![c] = k]
      /\ cache' = [cache EXCEPT ![f] = v] /\ UNCHANGED <<rows, clock, lastKey, edit>>
  BY DEF ResolveStore, catalogue
<1>2. /\ call[c] \in CallOf /\ r \in Row /\ r.key # NoKey /\ VersionOf(r) \in Versions
      /\ call[c].adapter \in Adapter /\ call[c].adapter = Build(r)
  BY <1>1, CallIsFine DEF CallFine
<1>3. k.row = r /\ k.adapter = Build(r) /\ k.pc = "calling" /\ k \in CallOf
  BY <1>2 DEF CallOf
<1>4. v = VersionOf(r)
  BY <1>2 DEF VersionOf
<1>5. v \in Entry
  BY <1>2 DEF Entry, Row
<1>6. cache \in [Folded -> Entry \cup {None}]
  BY DEF CatalogInv, Typed
<1>. HIDE DEF k, r, v, f
<1>7. CallFine(k)
  BY <1>2, <1>3 DEF CallFine
<1>8. cache' \in [Folded -> Entry \cup {None}]
  BY <1>1, <1>5, <1>6
<1>9. \A g \in Folded : cache'[g] = cache[g] \/ cache'[g] \in Versions
  BY <1>1, <1>2, <1>4, <1>6
<1>. QED
  BY <1>1, <1>7, <1>8, <1>9, CallStep

LEMMA EndStep ==
  ASSUME CatalogInv, NEW c \in Scans, CallEnds(c)
  PROVE  CatalogInv'
<1>1. IdleCall \in CallOf /\ IdleCall.pc = "idle"
  BY DEF IdleCall, CallOf
<1>2. CallFine(IdleCall)
  BY <1>1 DEF CallFine
<1>3. call' = [call EXCEPT ![c] = IdleCall] /\ UNCHANGED <<rows, clock, lastKey, edit, cache>>
  BY DEF CallEnds, catalogue
<1>4. cache' \in [Folded -> Entry \cup {None}]
  BY <1>3 DEF CatalogInv, Typed
<1>. QED
  BY <1>2, <1>3, <1>4, CallStep

-----------------------------------------------------------------------------
(* The theorems.                                                           *)

LEMMA InitCatalog == Init => CatalogInv
<1>. SUFFICES ASSUME Init PROVE CatalogInv
  OBVIOUS
<1>1. /\ cache = [f \in Folded |-> None] /\ edit = [a \in Admins |-> IdleEdit]
      /\ call = [c \in Scans |-> IdleCall]
  BY DEF Init
<1>2. EditsFine
  BY <1>1, IdleEditFine DEF EditsFine
<1>3. IdleCall \in CallOf /\ IdleCall.pc = "idle"
  BY DEF IdleCall, CallOf
<1>4. SeedRow \in Row /\ SeedRow.stamp = 1 /\ SeedRow.key = SeedKey /\ ~ Here(Absent)
  BY DEF SeedRow, Row, Here, Absent
<1>5. CallUsesTheRowItRead
  BY <1>1, <1>3 DEF CallUsesTheRowItRead
<1>6. CASE Unseeded
  <2>1. Typed
    BY <1>1, <1>2, <1>3, <1>6 DEF Unseeded, Typed
  <2>2. Versions = {}
    BY <1>1, <1>3, <1>4, <1>6 DEF Unseeded, Versions
  <2>3. StampsIdentify
    BY <2>2 DEF StampsIdentify
  <2>. QED
    BY <1>4, <1>5, <1>6, <2>1, <2>3 DEF CatalogInv, KeysSurviveOtherEdits, Unseeded
<1>7. ASSUME NEW p \in Pids, NEW m \in Mids, Seeded(p, m)
      PROVE  CatalogInv
  <2>0. /\ clock = 1 /\ rows = [q \in Pids |-> IF q = p THEN SeedRow ELSE Absent]
        /\ lastKey = [q \in Pids |-> IF q = p THEN SeedKey ELSE NoKey]
    BY <1>7 DEF Seeded
  <2>1. Typed
    BY <1>1, <1>2, <1>3, <1>4, <2>0 DEF Typed
  <2>2. Versions \subseteq {VersionOf(SeedRow)}
    BY <1>1, <1>3, <1>4, <2>0 DEF Versions
  <2>3. VersionOf(SeedRow).stamp = 1
    BY <1>4 DEF VersionOf
  <2>4. StampsIdentify
    BY <2>0, <2>2, <2>3 DEF StampsIdentify
  <2>. QED
    BY <1>4, <1>5, <2>0, <2>1, <2>4 DEF CatalogInv, KeysSurviveOtherEdits
<1>. QED
  BY <1>6, <1>7 DEF Init

LEMMA NextCatalog == CatalogInv /\ [Next]_vars => CatalogInv'
<1>. SUFFICES ASSUME CatalogInv, [Next]_vars PROVE CatalogInv'
  OBVIOUS
<1>1. CASE \E p \in Pids, c \in Creations : CreateProvider(p, c)
  BY <1>1, CreateStep
<1>2. ASSUME NEW a \in Admins, NEW p \in Pids,
             \/ \E patch \in Patches : BeginUpdateProvider(a, p, patch)
             \/ BeginDeleteProvider(a, p)
             \/ \E mp \in ModelPatches : BeginAddModel(a, p, mp)
             \/ \E m \in Mids : BeginDeleteModel(a, p, m)
      PROVE  CatalogInv'
  BY <1>2, LoadStep
     DEF BeginUpdateProvider, BeginDeleteProvider, BeginAddModel, BeginDeleteModel
<1>3. ASSUME NEW a \in Admins, NEW p \in Pids, NEW m \in Mids,
             NEW mp \in ModelPatches, BeginUpdateModel(a, p, m, mp)
      PROVE  CatalogInv'
  BY <1>3, BeginUpdateModelStep
<1>4. ASSUME NEW a \in Admins, UpdateProvider(a) \/ DeleteProvider(a)
      PROVE  CatalogInv'
  BY <1>4, UpdateStep, DeleteStep
<1>5. ASSUME NEW a \in Admins,
             (\E m \in Mids : AddModel(a, m)) \/ UpdateModel(a) \/ DeleteModel(a)
      PROVE  CatalogInv'
  BY <1>5, ModelStep
<1>6. ASSUME NEW a \in Admins, Invalidate(a) PROVE CatalogInv'
  BY <1>6, InvalidateStep
<1>7. ASSUME NEW c \in Scans,
             \/ \E n \in Names : ResolveRead(c, n)
             \/ ResolveLook(c) \/ ResolveStore(c) \/ CallEnds(c)
      PROVE  CatalogInv'
  BY <1>7, ReadStep, LookStep, StoreStep, EndStep
<1>8. ASSUME UNCHANGED <<rows, call, cache, lastKey, clock, edit>> PROVE CatalogInv'
  <2>1. EditsFine'
    BY <1>8 DEF CatalogInv, Typed, EditsFine
  <2>. QED
    BY <1>8, <2>1, QuietStep
<1>9. CASE PickNext
  <2>1. UNCHANGED <<rows, call, cache, lastKey, clock, edit>>
    BY <1>9 DEF PickNext, BeginPick, ListModels, GetSelection, SetSelection, catalogue
  <2>. QED
    BY <1>8, <2>1
<1>10. CASE UNCHANGED vars
  BY <1>8, <1>10 DEF vars
<1>11. CASE AdminNext
  BY <1>1, <1>2, <1>3, <1>4, <1>5, <1>6, <1>11 DEF AdminNext
<1>. QED
  BY <1>7, <1>9, <1>10, <1>11 DEF Next, CallNext

(* Whatever edits and resolves overlap, stamps tell row versions apart,     *)
(* calls hold the adapter of the row they read and keys stay as supplied.   *)
THEOREM CatalogInvariant == Spec => []CatalogInv
BY InitCatalog, NextCatalog, PTL DEF Spec

(* A call never goes out with an adapter of an older version of the         *)
(* provider, however slow the resolve that stored it was (db_gateway.go).   *)
THEOREM CallsUseTheRowTheyRead == Spec => []CallUsesTheRowItRead
<1>1. CatalogInv => CallUsesTheRowItRead
  BY DEF CatalogInv
<1>. QED
  BY <1>1, CatalogInvariant, PTL

(* An edit that supplies no key never brings an earlier key back, whatever  *)
(* other edits it overlaps with (UpdateProvider of the repositories).       *)
THEOREM SuppliedKeysSurvive == Spec => []KeysSurviveOtherEdits
<1>1. CatalogInv => KeysSurviveOtherEdits
  BY DEF CatalogInv
<1>. QED
  BY <1>1, CatalogInvariant, PTL

-----------------------------------------------------------------------------
(* The type invariant.  An edit between its read and its write holds what   *)
(* its operation needs, and one that evicts has a name left to evict.       *)

ModelValues == [model : ModelNames, enabled : BOOLEAN, price : Prices \cup {Unpriced}]

EditHolds(e) ==
  /\ e.pc = "write" => /\ e.id \in Pids /\ e.old \in Names
                       /\ e.op = "update" => e.row \in Row /\ e.patch \in Patches
                       /\ e.op = "add" => e.patch \in ModelPatches /\ e.patch.model # Keep
                       /\ e.op = "patch" => e.patch \in ModelValues
                       /\ e.op \in {"patch", "drop"} => e.mid \in Mids
  /\ e.pc = "evict" => e.evict # <<>>
EditTyped(e) == e \in EditOf /\ EditHolds(e)

Edited == edit \in [Admins -> EditOf] /\ \A a \in Admins : EditHolds(edit[a])
Modelled == models \in [Mids -> ModelRow \cup {Absent, Gone}]
Clocked == memory \in BOOLEAN /\ clock \in 0 .. MaxClock

TypedIInv == Clocked /\ Modelled /\ Edited

LEMMA EditChanges ==
  ASSUME Edited, NEW a \in Admins, NEW e, edit' = [edit EXCEPT ![a] = e], EditTyped(e)
  PROVE  Edited'
BY DEF Edited, EditTyped

LEMMA IdleEditTyped == EditTyped(IdleEdit)
BY DEF IdleEdit, EditOf, EditTyped, EditHolds

LEMMA EvictingTyped ==
  ASSUME NEW names \in Seq(Names), names # <<>>
  PROVE  EditTyped([IdleEdit EXCEPT !.pc = "evict", !.evict = names])
BY DEF IdleEdit, EditOf, EditTyped, EditHolds

(* The end of an edit, refused or on to its evictions.                      *)
LEMMA EditEnds ==
  ASSUME Edited, NEW a \in Admins,
         \/ Refuse(a)
         \/ \E n \in Seq(Names) : n # <<>> /\ Evicting(a, n)
  PROVE  Edited'
BY EditChanges, IdleEditTyped, EvictingTyped DEF Refuse, Evicting

LEMMA TickTyped == ASSUME Clocked, Tick, UNCHANGED memory PROVE Clocked'
BY DEF Clocked, Tick, MayWrite

LEMMA ModelWritten ==
  ASSUME Modelled, NEW m, NEW r \in ModelRow \cup {Absent, Gone},
         models' = [models EXCEPT ![m] = r]
  PROVE  Modelled'
<1>. DEFINE T == ModelRow \cup {Absent, Gone}
<1>1. models \in [Mids -> T] /\ r \in T
  BY DEF Modelled
<1>. HIDE DEF T
<1>2. models' \in [Mids -> T]
  BY <1>1
<1>. QED
  BY <1>2 DEF Modelled, T

LEMMA RowIs == ASSUME CatalogInv, NEW p \in Pids, Here(rows[p]) PROVE rows[p] \in Row
BY DEF CatalogInv, Typed, Here, Absent, Gone

LEMMA ModelRowIs == ASSUME Modelled, NEW m \in Mids, Here(models[m]) PROVE models[m] \in ModelRow
BY DEF Modelled, Here, Absent, Gone

LEMMA LoadTyped ==
  ASSUME CatalogInv, TypedIInv, NEW a \in Admins, NEW op \in {"update", "delete", "add", "drop"},
         NEW p \in Pids, NEW mid \in Mids \cup {None},
         NEW patch \in Patches \cup ModelPatches \cup {None}, Load(a, op, p, mid, patch),
         op = "update" => patch \in Patches,
         op = "add" => patch \in ModelPatches /\ patch.model # Keep,
         op = "drop" => mid \in Mids
  PROVE  TypedIInv'
<1>. DEFINE r == rows[p]
            row == IF op = "update" THEN r ELSE None
            e == [pc |-> "write", op |-> op, id |-> p, old |-> r.name, row |-> row,
                  mid |-> mid, patch |-> patch, evict |-> <<>>]
<1>1. edit' = [edit EXCEPT ![a] = e] /\ Here(r) /\ UNCHANGED <<memory, models, clock>>
  BY DEF Load, catalogue
<1>2. r \in Row
  BY <1>1, RowIs
<1>3. r.name \in Names /\ row \in Row \cup {None} /\ (op = "update" => row \in Row)
      /\ <<>> \in Seq(Names)
  BY <1>2 DEF Row
<1>. HIDE DEF r, row
<1>4. e \in EditOf
  BY <1>3 DEF EditOf
<1>5. EditHolds(e)
  BY <1>3 DEF EditHolds
<1>. HIDE DEF e
<1>6. Edited'
  BY <1>1, <1>4, <1>5, EditChanges DEF TypedIInv, EditTyped
<1>. QED
  BY <1>1, <1>6 DEF TypedIInv, Clocked, Modelled

LEMMA BeginUpdateModelTyped ==
  ASSUME CatalogInv, TypedIInv, NEW a \in Admins, NEW p \in Pids, NEW m \in Mids,
         NEW mp \in ModelPatches, BeginUpdateModel(a, p, m, mp)
  PROVE  TypedIInv'
<1>. DEFINE old == rows[p].name
            k == models[m]
            v == [model   |-> Pick(mp.model, k.model),
                  enabled |-> Pick(mp.enabled, k.enabled),
                  price   |-> Pick(mp.price, k.price)]
            e == [pc |-> "write", op |-> "patch", id |-> p, old |-> old, row |-> None,
                  mid |-> m, patch |-> v, evict |-> <<>>]
<1>1. edit' = [edit EXCEPT ![a] = e] /\ Here(rows[p]) /\ Here(k)
      /\ UNCHANGED <<memory, models, clock>>
  BY DEF BeginUpdateModel, ModelsOf, catalogue
<1>2. old \in Names /\ k \in ModelRow /\ mp \in ModelPatch
  BY <1>1, RowIs, ModelRowIs DEF TypedIInv, Row
<1>3. /\ Pick(mp.model, k.model) \in ModelNames /\ Pick(mp.enabled, k.enabled) \in BOOLEAN
      /\ Pick(mp.price, k.price) \in Prices \cup {Unpriced}
  BY <1>2 DEF Pick, ModelPatch, ModelRow
<1>4. v \in ModelValues
  BY <1>3 DEF ModelValues
<1>. HIDE DEF old, v
<1>5. e \in EditOf
  BY <1>2, <1>4 DEF EditOf, ModelValues
<1>6. EditHolds(e)
  BY <1>2, <1>4 DEF EditHolds
<1>. HIDE DEF e
<1>7. Edited'
  BY <1>1, <1>5, <1>6, EditChanges DEF TypedIInv, EditTyped
<1>. QED
  BY <1>1, <1>7 DEF TypedIInv, Clocked, Modelled

LEMMA WriteTyped ==
  ASSUME CatalogInv, TypedIInv, NEW a \in Admins,
         \/ UpdateProvider(a) \/ DeleteProvider(a)
         \/ (\E m \in Mids : AddModel(a, m)) \/ UpdateModel(a) \/ DeleteModel(a)
  PROVE  TypedIInv'
<1>. DEFINE e == edit[a]
<1>0. Edited /\ Clocked /\ Modelled /\ EditHolds(e)
  BY DEF TypedIInv, Edited
<1>1. CASE Refuse(a)
  BY <1>1, EditEnds DEF Refuse, TypedIInv, Clocked, Modelled, catalogue
<1>2. CASE UpdateProvider(a) /\ ~Refuse(a)
  <2>. DEFINE n == Pick(e.patch.name, e.row.name)
  <2>1. Evicting(a, <<e.old, n>>) /\ Tick /\ UNCHANGED <<memory, models>> /\ Writing(a, "update")
    BY <1>2 DEF UpdateProvider
  <2>2. e.old \in Names /\ e.row \in Row /\ e.patch \in Patch
    BY <1>0, <2>1 DEF Writing, EditHolds
  <2>3. n \in Names
    BY <2>2 DEF Pick, Row, Patch
  <2>. HIDE DEF n, e
  <2>4. <<e.old, n>> \in Seq(Names) /\ <<e.old, n>> # <<>>
    BY <2>2, <2>3
  <2>. QED
    BY <1>0, <2>1, <2>4, EditEnds, TickTyped DEF TypedIInv, Modelled
<1>3. ASSUME Writing(a, e.op), Evicting(a, <<e.old>>), UNCHANGED memory, Tick
      PROVE  Edited' /\ Clocked'
  <2>1. e.old \in Names
    BY <1>0, <1>3 DEF Writing, EditHolds
  <2>2. <<e.old>> \in Seq(Names) /\ <<e.old>> # <<>>
    BY <2>1
  <2>. QED
    BY <1>0, <1>3, <2>2, EditEnds, TickTyped
<1>4. CASE DeleteProvider(a)
  <2>1. Edited' /\ Clocked'
    BY <1>3, <1>4 DEF DeleteProvider, Writing
  <2>2. models' = [m \in Mids |-> IF m \in ModelsOf(models, e.id) THEN Gone ELSE models[m]]
    BY <1>4 DEF DeleteProvider
  <2>3. Modelled'
    BY <1>0, <2>2 DEF Modelled
  <2>. QED
    BY <2>1, <2>3 DEF TypedIInv
<1>5. ASSUME NEW m \in Mids, AddModel(a, m) PROVE TypedIInv'
  <2>. DEFINE b == StoredEnabled(Pick(e.patch.enabled, TRUE))
              c == Pick(e.patch.price, Unpriced)
              r == [is |-> "row", pid |-> e.id, model |-> e.patch.model, enabled |-> b,
                    price |-> c, born |-> clock']
  <2>1. Edited' /\ Clocked'
    BY <1>3, <1>5 DEF AddModel, Writing
  <2>2. e.id \in Pids /\ e.patch \in ModelPatch /\ e.patch.model # Keep
    BY <1>0, <1>5 DEF AddModel, Writing, EditHolds
  <2>3. e.patch.model \in ModelNames /\ b \in BOOLEAN /\ c \in Prices \cup {Unpriced}
    BY <2>2, StoredIsBoolean DEF ModelPatch, Pick
  <2>4. clock' \in Nat
    BY <2>1 DEF Clocked
  <2>5. models' = [models EXCEPT ![m] = r]
    BY <1>5 DEF AddModel
  <2>. HIDE DEF b, c, e
  <2>6. r \in ModelRow
    BY <2>2, <2>3, <2>4 DEF ModelRow
  <2>. HIDE DEF r
  <2>7. Modelled'
    BY <1>0, <2>5, <2>6, ModelWritten
  <2>. QED
    BY <2>1, <2>7 DEF TypedIInv
<1>6. CASE UpdateModel(a) /\ ~Refuse(a)
  <2>. DEFINE k == models[e.mid]
              v == e.patch
              r == IF ~Here(k) THEN k
                   ELSE [k EXCEPT !.model = v.model, !.enabled = v.enabled, !.price = v.price]
  <2>1. Edited' /\ Clocked'
    BY <1>3, <1>6 DEF UpdateModel, Writing
  <2>2. e.mid \in Mids /\ v \in ModelValues
    BY <1>0, <1>6 DEF UpdateModel, Writing, EditHolds
  <2>3. models' = [models EXCEPT ![e.mid] = r]
    BY <1>6 DEF UpdateModel
  <2>4. k \in ModelRow \cup {Absent, Gone} /\ (Here(k) => k \in ModelRow)
    BY <1>0, <2>2, ModelRowIs DEF Modelled
  <2>. HIDE DEF k, v, e
  <2>5. r \in ModelRow \cup {Absent, Gone}
    BY <2>2, <2>4 DEF ModelRow, ModelValues
  <2>. HIDE DEF r
  <2>6. Modelled'
    BY <1>0, <2>3, <2>5, ModelWritten
  <2>. QED
    BY <2>1, <2>6 DEF TypedIInv
<1>7. CASE DeleteModel(a)
  <2>1. Edited' /\ Clocked'
    BY <1>3, <1>7 DEF DeleteModel, Writing
  <2>2. Modelled'
    BY <1>0, <1>7, ModelWritten DEF DeleteModel
  <2>. QED
    BY <2>1, <2>2 DEF TypedIInv
<1>. QED
  BY <1>1, <1>2, <1>4, <1>5, <1>6, <1>7

LEMMA InvalidateTyped ==
  ASSUME TypedIInv, NEW a \in Admins, Invalidate(a) PROVE TypedIInv'
<1>. DEFINE e == edit[a]
            rest == Tail(e.evict)
<1>1. e \in EditOf /\ e.pc = "evict" /\ e.evict # <<>> /\ Edited
  BY DEF Invalidate, TypedIInv, Edited, EditHolds
<1>2. rest \in Seq(Names)
  BY <1>1 DEF EditOf
<1>3. edit' = [edit EXCEPT ![a] = IF rest = <<>> THEN IdleEdit ELSE [e EXCEPT !.evict = rest]]
      /\ UNCHANGED <<memory, models, clock>>
  BY DEF Invalidate, catalogue
<1>. HIDE DEF e, rest
<1>4. CASE rest = <<>>
  <2>1. Edited'
    BY <1>1, <1>3, <1>4, EditChanges, IdleEditTyped
  <2>. QED
    BY <1>3, <2>1 DEF TypedIInv, Clocked, Modelled
<1>5. CASE rest # <<>>
  <2>. DEFINE f == [e EXCEPT !.evict = rest]
  <2>1. EditTyped(f)
    BY <1>1, <1>2, <1>5 DEF EditTyped, EditOf, EditHolds
  <2>2. edit' = [edit EXCEPT ![a] = f]
    BY <1>3, <1>5
  <2>. HIDE DEF f
  <2>3. Edited'
    BY <1>1, <2>1, <2>2, EditChanges
  <2>. QED
    BY <1>3, <2>3 DEF TypedIInv, Clocked, Modelled
<1>. QED
  BY <1>4, <1>5

LEMMA InitTyped == Init => TypedIInv
<1>. SUFFICES ASSUME Init PROVE TypedIInv
  OBVIOUS
<1>1. Edited
  BY IdleEditTyped DEF Init, Edited, EditTyped
<1>2. CASE Unseeded
  BY <1>1, <1>2 DEF Init, Unseeded, TypedIInv, Clocked, Modelled
<1>3. ASSUME NEW p \in Pids, NEW m \in Mids, Seeded(p, m) PROVE TypedIInv
  <2>1. SeedModelRow(p) \in ModelRow
    BY DEF SeedModelRow, ModelRow
  <2>2. models = [k \in Mids |-> IF k = m THEN SeedModelRow(p) ELSE Absent] /\ clock = 1
    BY <1>3 DEF Seeded
  <2>. QED
    BY <1>1, <2>1, <2>2 DEF Init, TypedIInv, Clocked, Modelled
<1>. QED
  BY <1>2, <1>3 DEF Init

LEMMA NextTyped == CatalogInv /\ TypedIInv /\ [Next]_vars => TypedIInv'
<1>. SUFFICES ASSUME CatalogInv, TypedIInv, [Next]_vars PROVE TypedIInv'
  OBVIOUS
<1>1. ASSUME NEW p \in Pids, NEW c \in Creations, CreateProvider(p, c) PROVE TypedIInv'
  BY <1>1, TickTyped DEF CreateProvider, TypedIInv, Edited, Modelled
<1>2. ASSUME NEW a \in Admins, NEW p \in Pids,
             \/ \E patch \in Patches : BeginUpdateProvider(a, p, patch)
             \/ BeginDeleteProvider(a, p)
             \/ \E mp \in ModelPatches : BeginAddModel(a, p, mp)
             \/ \E m \in Mids : BeginDeleteModel(a, p, m)
      PROVE  TypedIInv'
  BY <1>2, LoadTyped
     DEF BeginUpdateProvider, BeginDeleteProvider, BeginAddModel, BeginDeleteModel
<1>3. ASSUME UNCHANGED <<memory, models, clock, edit>> PROVE TypedIInv'
  BY <1>3 DEF TypedIInv, Clocked, Modelled, Edited
<1>4. CASE AdminNext
  BY <1>1, <1>2, <1>4, BeginUpdateModelTyped, WriteTyped, InvalidateTyped DEF AdminNext
<1>5. CASE CallNext
  BY <1>3, <1>5 DEF CallNext, ResolveRead, ResolveLook, ResolveStore, CallEnds, catalogue
<1>6. CASE PickNext
  BY <1>3, <1>6 DEF PickNext, BeginPick, ListModels, GetSelection, SetSelection, catalogue
<1>7. CASE UNCHANGED vars
  BY <1>3, <1>7 DEF vars
<1>. QED
  BY <1>4, <1>5, <1>6, <1>7 DEF Next

THEOREM TypedInvariant == Spec => []TypedIInv
BY CatalogInvariant, InitTyped, NextTyped, PTL DEF Spec

-----------------------------------------------------------------------------
(* The listing a selection is made from.                                    *)

LEMMA LeastNumber ==
  ASSUME NEW T, T \subseteq Nat, T # {} PROVE \E x \in T : \A y \in T : x <= y
<1>. DEFINE R == {ss \in Nat \X Nat : ss[1] < ss[2]}
<1>1. IsWellFoundedOn(R, Nat)
  BY NatLessThanWellFounded DEF OpToRel
<1>. HIDE DEF R
<1>2. PICK x \in T : \A y \in T : ~(<<y, x>> \in R)
  BY <1>1, WFMin
<1>3. ASSUME NEW y \in T PROVE x <= y
  <2>1. x \in Nat /\ y \in Nat /\ <<y, x>> \notin R
    BY <1>2
  <2>2. ~(y < x)
    BY <2>1 DEF R
  <2>. QED
    BY <2>1, <2>2
<1>. QED
  BY <1>3

(* The first offer of a listing that is not empty is one of its offers.     *)
LEMMA FirstIsOffered ==
  ASSUME NEW S \in SUBSET Offer, S # {}
  PROVE  \E o \in S : FirstOption(S) = [name |-> o.name, model |-> o.model]
<1>. DEFINE B == {o.born : o \in S}
<1>1. B \subseteq Nat /\ B # {}
  BY DEF Offer
<1>2. PICK b \in B : \A c \in B : b <= c
  <2>. HIDE DEF B
  <2>. QED
    BY <1>1, LeastNumber
<1>. DEFINE M == {o.mborn : o \in {q \in S : q.born = b}}
<1>3. M \subseteq Nat /\ M # {}
  BY DEF Offer
<1>4. PICK m \in M : \A c \in M : m <= c
  <2>. HIDE DEF M
  <2>. QED
    BY <1>3, LeastNumber
<1>5. PICK o \in S : o.born = b /\ o.mborn = m
  OBVIOUS
<1>6. ASSUME NEW q \in S PROVE o.born < q.born \/ (o.born = q.born /\ o.mborn <= q.mborn)
  <2>1. q.born \in Nat /\ b \in Nat
    BY DEF Offer
  <2>2. b <= q.born
    BY <1>2
  <2>3. q.born = b => m <= q.mborn
    BY <1>4
  <2>. QED
    BY <1>5, <2>1, <2>2, <2>3
<1>. DEFINE f == CHOOSE x \in S : \A q \in S : \/ x.born < q.born
                                               \/ x.born = q.born /\ x.mborn <= q.mborn
<1>7. f \in S
  BY <1>6
<1>8. FirstOption(S) = [name |-> f.name, model |-> f.model]
  BY DEF FirstOption
<1>. QED
  BY <1>7, <1>8

Table == [Pids -> Row \cup {Absent, Gone}]

LEMMA OffersTyped == ASSUME Modelled, NEW rs \in Table PROVE OffersOf(rs, models) \subseteq Offer
<1>. SUFFICES ASSUME NEW m \in Mids, Offerable(rs, models[m])
              PROVE  [name |-> rs[models[m].pid].name, model |-> models[m].model,
                      born |-> rs[models[m].pid].born, mborn |-> models[m].born] \in Offer
  BY DEF OffersOf
<1>1. models[m] \in ModelRow /\ Here(rs[models[m].pid])
  BY ModelRowIs DEF Offerable
<1>2. rs[models[m].pid] \in Row
  BY <1>1 DEF Table, ModelRow, Here, Absent, Gone
<1>. QED
  BY <1>1, <1>2 DEF Offer, Row, ModelRow

-----------------------------------------------------------------------------
(* Selections.  What a request holds is of the catalogue as it is now, as   *)
(* long as nothing was written since it read it.                            *)

Offers == OffersOf(rows, models)

PickFields == {"pc", "op", "want", "rows", "offers", "at", "answer"}

PickFine(k) ==
  /\ k = [x \in PickFields |-> k[x]]
  /\ k.pc \in {"idle", "models", "choose", "answered"} /\ k.at \in 0 .. clock
  /\ k.offers \subseteq Offer /\ k.answer \in Choice \cup {None}
  /\ k.pc \in {"models", "choose"} /\ k.op = "set" => k.want \in Wanted
  /\ k.pc = "models" /\ ~memory => k.rows \in Table /\ (k.at = clock => k.rows = rows)
  /\ k.pc = "choose" /\ k.at = clock => k.offers = Offers
  /\ k.pc = "answered" /\ k.answer # None /\ k.at = clock =>
       /\ OptionExists(Offers, k.answer)
       /\ k.answer \in Wanted \/ \E o \in Offers : k.answer.name = o.name

PickInv == /\ DOMAIN pick = Users /\ \A u \in Users : PickFine(pick[u])
           /\ pref \in [Users -> Wanted \cup {None}]

(* The catalogue was written, so nothing read before is current any more.   *)
LEMMA Overtaken ==
  ASSUME NEW k, PickFine(k), clock \in Nat, UNCHANGED memory,
         UNCHANGED <<rows, models, clock>> \/ clock' = clock + 1
  PROVE  PickFine(k)'
<1>1. CASE UNCHANGED <<rows, models, clock>>
  BY <1>1 DEF PickFine, Offers
<1>2. CASE clock' = clock + 1
  <2>1. k.at \in 0 .. clock' /\ k.at # clock'
    BY <1>2 DEF PickFine
  <2>. QED
    BY <2>1 DEF PickFine
<1>. QED
  BY <1>1, <1>2

(* One request moves on, and the catalogue stands still.                    *)
LEMMA PickChanges ==
  ASSUME PickInv, NEW u \in Users, NEW k, pick' = [pick EXCEPT ![u] = k], PickFine(k),
         UNCHANGED <<memory, rows, models, clock>>, pref' \in [Users -> Wanted \cup {None}]
  PROVE  PickInv'
<1>1. \A v \in Users : PickFine(pick'[v])
  BY DEF PickInv
<1>2. \A v \in Users : PickFine(pick[v])'
  BY <1>1 DEF PickFine, Offers
<1>. QED
  BY <1>2 DEF PickInv

LEMMA BeginPickStep ==
  ASSUME CatalogInv, TypedIInv, PickInv, NEW u \in Users, NEW op \in {"get", "set"}, NEW w,
         BeginPick(u, op, w), op = "set" => w \in Wanted
  PROVE  PickInv'
<1>. DEFINE rs == IF memory THEN None ELSE rows
            t == clock
            k == [IdlePick EXCEPT !.pc = "models", !.op = op, !.want = w, !.rows = rs, !.at = t]
<1>1. /\ pick' = [pick EXCEPT ![u] = k] /\ UNCHANGED <<memory, rows, models, clock, pref>>
      /\ t \in Nat /\ (~memory => rs = rows /\ rs \in Table) /\ t = clock
  BY DEF BeginPick, catalogue, CatalogInv, Typed, Table
<1>. HIDE DEF rs, t
<1>2. /\ k = [x \in PickFields |-> k[x]] /\ k.pc = "models" /\ k.at = t /\ k.rows = rs
      /\ k.op = op /\ k.want = w /\ k.offers = {} /\ k.answer = None
  BY DEF IdlePick, PickFields
<1>. HIDE DEF k
<1>3. PickFine(k)
  BY <1>1, <1>2 DEF PickFine
<1>4. pref' \in [Users -> Wanted \cup {None}]
  BY <1>1 DEF PickInv
<1>. QED
  BY <1>1, <1>3, <1>4, PickChanges

LEMMA ListModelsStep ==
  ASSUME CatalogInv, TypedIInv, PickInv, NEW u \in Users, ListModels(u)
  PROVE  PickInv'
<1>. DEFINE j == pick[u]
            seen == IF memory THEN rows ELSE j.rows
            os == OffersOf(seen, models)
            t == IF memory THEN clock ELSE j.at
            k == [j EXCEPT !.pc = "choose", !.rows = None, !.offers = os, !.at = t]
<1>1. /\ pick' = [pick EXCEPT ![u] = k] /\ UNCHANGED <<memory, rows, models, clock, pref>>
      /\ j.pc = "models"
  BY DEF ListModels, catalogue
<1>2. PickFine(j)
  BY DEF PickInv
<1>3. seen \in Table /\ (t = clock => seen = rows) /\ t \in 0 .. clock /\ clock \in Nat
  BY <1>1, <1>2 DEF PickFine, CatalogInv, Typed, Table
<1>4. os \subseteq Offer /\ (t = clock => os = Offers)
  BY <1>3, OffersTyped DEF TypedIInv, Offers
<1>. HIDE DEF seen, os, t, j
<1>5. /\ k = [x \in PickFields |-> k[x]] /\ k.pc = "choose" /\ k.at = t /\ k.offers = os
      /\ k.op = j.op /\ k.want = j.want /\ k.answer = j.answer
  BY <1>2 DEF PickFine, PickFields
<1>. HIDE DEF k
<1>6. PickFine(k)
  BY <1>1, <1>2, <1>3, <1>4, <1>5 DEF PickFine
<1>7. pref' \in [Users -> Wanted \cup {None}]
  BY <1>1 DEF PickInv
<1>. QED
  BY <1>1, <1>6, <1>7, PickChanges DEF j

(* The answer is one of the offers the request has listed, or nothing.      *)
LEMMA AnswerStep ==
  ASSUME CatalogInv, TypedIInv, PickInv, NEW u \in Users, NEW w \in Choice \cup {None},
         Answer(u, w), pick[u].pc = "choose", UNCHANGED <<memory, rows, models, clock>>,
         w # None => /\ OptionExists(pick[u].offers, w)
                     /\ w \in Wanted \/ \E o \in pick[u].offers : w.name = o.name,
         pref' \in [Users -> Wanted \cup {None}]
  PROVE  PickInv'
<1>. DEFINE j == pick[u]
            k == [j EXCEPT !.pc = "answered", !.answer = w, !.offers = {}]
<1>1. pick' = [pick EXCEPT ![u] = k] /\ PickFine(j) /\ j.pc = "choose"
  BY DEF Answer, PickInv
<1>2. w # None => /\ OptionExists(j.offers, w)
                  /\ w \in Wanted \/ \E o \in j.offers : w.name = o.name
  OBVIOUS
<1>. HIDE DEF j
<1>3. /\ k = [x \in PickFields |-> k[x]] /\ k.pc = "answered" /\ k.at = j.at
      /\ k.offers = {} /\ k.answer = w
  BY <1>1 DEF PickFine, PickFields
<1>. HIDE DEF k
<1>4. PickFine(k)
  BY <1>1, <1>2, <1>3 DEF PickFine
<1>. QED
  BY <1>1, <1>4, PickChanges

LEMMA GetSelectionStep ==
  ASSUME CatalogInv, TypedIInv, PickInv, NEW u \in Users, GetSelection(u)
  PROVE  PickInv'
<1>. DEFINE os == pick[u].offers
            w == IF pref[u] # None /\ OptionExists(os, pref[u]) THEN pref[u]
                 ELSE IF os # {} THEN FirstOption(os) ELSE None
<1>1. /\ Answer(u, w) /\ pick[u].pc = "choose"
      /\ UNCHANGED <<memory, rows, models, clock, pref>> /\ os \subseteq Offer
      /\ pref[u] \in Wanted \cup {None}
  BY DEF GetSelection, catalogue, PickInv, PickFine
<1>2. Wanted \subseteq Choice
  BY DEF Wanted, Choice
<1>3. ASSUME os # {}
      PROVE  /\ FirstOption(os) \in Choice /\ OptionExists(os, FirstOption(os))
             /\ \E o \in os : FirstOption(os).name = o.name
  <2>1. PICK o \in os : FirstOption(os) = [name |-> o.name, model |-> o.model]
    BY <1>1, <1>3, FirstIsOffered
  <2>2. o \in Offer
    BY <1>1
  <2>. QED
    BY <2>1, <2>2 DEF Offer, Choice, OptionExists
<1>. HIDE DEF os
<1>4. w \in Choice \cup {None}
  BY <1>1, <1>2, <1>3
<1>5. w # None => OptionExists(os, w) /\ (w \in Wanted \/ \E o \in os : w.name = o.name)
  BY <1>1, <1>3
<1>6. pref' \in [Users -> Wanted \cup {None}]
  BY <1>1 DEF PickInv
<1>. HIDE DEF w
<1>. QED
  BY <1>1, <1>4, <1>5, <1>6, AnswerStep DEF os

LEMMA SetSelectionStep ==
  ASSUME CatalogInv, TypedIInv, PickInv, NEW u \in Users, SetSelection(u)
  PROVE  PickInv'
<1>. DEFINE w == pick[u].want
            ok == OptionExists(pick[u].offers, w)
            v == IF ok THEN w ELSE None
<1>1. /\ Answer(u, v) /\ pick[u].pc = "choose" /\ w \in Wanted
      /\ UNCHANGED <<memory, rows, models, clock>>
      /\ pref' = IF ok THEN [pref EXCEPT ![u] = w] ELSE pref
  BY DEF SetSelection, catalogue, PickInv, PickFine
<1>2. Wanted \subseteq Choice
  BY DEF Wanted, Choice
<1>3. v \in Choice \cup {None} /\ (v # None => OptionExists(pick[u].offers, v) /\ v \in Wanted)
  BY <1>1, <1>2
<1>4. pref' \in [Users -> Wanted \cup {None}]
  <2>. HIDE DEF w, ok
  <2>. QED
    BY <1>1 DEF PickInv
<1>. HIDE DEF v
<1>. QED
  BY <1>1, <1>3, <1>4, AnswerStep

(* Every write of a provider or a model is stamped with a time of its own.  *)
LEMMA AdminWrites ==
  ASSUME AdminNext
  PROVE  /\ UNCHANGED <<rows, models, clock>> \/ clock' = clock + 1
         /\ UNCHANGED <<memory, pick, pref>>
<1>1. ASSUME NEW a \in Admins, NEW op, NEW p, NEW mid, NEW patch, Load(a, op, p, mid, patch)
      PROVE  UNCHANGED <<rows, models, clock, memory, pick, pref>>
  BY <1>1 DEF Load, catalogue
<1>2. ASSUME NEW p, NEW c, CreateProvider(p, c)
      PROVE  clock' = clock + 1 /\ UNCHANGED <<memory, pick, pref>>
  BY <1>2 DEF CreateProvider, Tick
<1>3. ASSUME NEW a \in Admins, NEW p, NEW m, NEW mp, BeginUpdateModel(a, p, m, mp)
      PROVE  UNCHANGED <<rows, models, clock, memory, pick, pref>>
  BY <1>3 DEF BeginUpdateModel, catalogue
<1>4. ASSUME NEW a \in Admins,
             \/ UpdateProvider(a) \/ DeleteProvider(a)
             \/ (\E m \in Mids : AddModel(a, m)) \/ UpdateModel(a) \/ DeleteModel(a)
      PROVE  /\ UNCHANGED <<rows, models, clock>> \/ clock' = clock + 1
             /\ UNCHANGED <<memory, pick, pref>>
  BY <1>4 DEF UpdateProvider, DeleteProvider, AddModel, UpdateModel, DeleteModel, Refuse, Tick,
              catalogue
<1>5. ASSUME NEW a \in Admins, Invalidate(a)
      PROVE  UNCHANGED <<rows, models, clock, memory, pick, pref>>
  BY <1>5 DEF Invalidate, catalogue
<1>. QED
  BY <1>1, <1>2, <1>3, <1>4, <1>5
     DEF AdminNext, BeginUpdateProvider, BeginDeleteProvider, BeginAddModel, BeginDeleteModel

LEMMA InitPick == Init => PickInv
<1>1. /\ IdlePick = [x \in PickFields |-> IdlePick[x]] /\ IdlePick.pc = "idle"
      /\ IdlePick.at = 0 /\ IdlePick.offers = {} /\ IdlePick.answer = None
  BY DEF IdlePick, PickFields
<1>2. Init => clock \in Nat
  BY DEF Init, Seeded, Unseeded
<1>3. clock \in Nat => PickFine(IdlePick)
  BY <1>1 DEF PickFine
<1>. QED
  BY <1>2, <1>3 DEF Init, PickInv

LEMMA NextPick == CatalogInv /\ TypedIInv /\ PickInv /\ [Next]_vars => PickInv'
<1>. SUFFICES ASSUME CatalogInv, TypedIInv, PickInv, [Next]_vars PROVE PickInv'
  OBVIOUS
<1>1. ASSUME UNCHANGED <<rows, models, clock>> \/ clock' = clock + 1,
             UNCHANGED <<memory, pick, pref>>
      PROVE  PickInv'
  <2>1. clock \in Nat
    BY DEF CatalogInv, Typed
  <2>2. \A u \in Users : PickFine(pick[u])'
    BY <1>1, <2>1, Overtaken DEF PickInv, PickFine, Offers
  <2>. QED
    BY <1>1, <2>2 DEF PickInv
<1>2. CASE AdminNext
  BY <1>1, <1>2, AdminWrites
<1>3. CASE CallNext
  BY <1>1, <1>3 DEF CallNext, ResolveRead, ResolveLook, ResolveStore, CallEnds, catalogue
<1>4. CASE UNCHANGED vars
  BY <1>1, <1>4 DEF vars
<1>5. CASE PickNext
  BY <1>5, BeginPickStep, ListModelsStep, GetSelectionStep, SetSelectionStep DEF PickNext
<1>. QED
  BY <1>2, <1>3, <1>4, <1>5 DEF Next

(* A selection request holds the catalogue as it is, unless a write has     *)
(* overtaken it, and what it answers is offered.                            *)
THEOREM PickInvariant == Spec => []PickInv
BY CatalogInvariant, TypedInvariant, InitPick, NextPick, PTL DEF Spec

(* The rows, the cache and every request in flight keep their place in the  *)
(* code, and a call goes out with the adapter of the row resolve read for   *)
(* it (db_gateway.go), for every set of requests.                           *)
THEOREM ResolvesHoldTheirRows == Spec => []ResolveInv
<1>1. CatalogInv /\ TypedIInv /\ PickInv => ResolveInv
  <2>. SUFFICES ASSUME CatalogInv, TypedIInv, PickInv PROVE ResolveInv
    OBVIOUS
  <2>1. pref \in [Users -> Choice \cup {None}]
    BY DEF PickInv, Wanted, Choice
  <2>2. \A u \in Users : /\ pick[u].pc \in {"idle", "models", "choose", "answered"}
                         /\ pick[u].offers \subseteq Offer /\ pick[u].at \in Nat
                         /\ pick[u].answer \in Choice \cup {None}
    BY DEF PickInv, PickFine, CatalogInv, Typed
  <2>3. TypeOK
    BY <2>1, <2>2 DEF CatalogInv, Typed, TypedIInv, Clocked, Modelled, Edited, TypeOK
  <2>. QED
    BY <2>3 DEF CatalogInv, ResolveInv
<1>. QED
  BY <1>1, CatalogInvariant, TypedInvariant, PickInvariant, PTL

(* In a catalogue without blank or repeated names, whatever is offered now  *)
(* passes the gateway's check.                                              *)
LEMMA OfferedRuns ==
  ASSUME CatalogInv, TypedIInv, Unambiguous, NEW w \in Choice, OptionExists(Offers, w),
         w \in Wanted \/ \E o \in Offers : w.name = o.name
  PROVE  Runs(w)
<1>1. PICK o \in Offers : Fold[o.name] = Fold[w.name] /\ o.model = w.model
  BY DEF OptionExists
<1>2. PICK m \in Mids : /\ Offerable(rows, models[m])
                        /\ o = [name |-> rows[models[m].pid].name, model |-> models[m].model,
                                born |-> rows[models[m].pid].born, mborn |-> models[m].born]
  BY <1>1 DEF Offers, OffersOf
<1>. DEFINE p == models[m].pid
<1>3. models[m] \in ModelRow /\ Here(models[m]) /\ models[m].enabled
      /\ Here(rows[p]) /\ rows[p].enabled /\ rows[p].key # NoKey
  BY <1>2, ModelRowIs DEF Offerable, TypedIInv
<1>4. p \in Pids /\ o.name = rows[p].name /\ o.model = models[m].model
  BY <1>2, <1>3 DEF ModelRow
<1>5. rows[p].name # Blank /\ Named(rows[p].name) = {p}
  BY <1>3, <1>4 DEF Unambiguous
<1>6. Named(w.name) = Named(rows[p].name)
  BY <1>1, <1>4 DEF Named
<1>7. w.name # Blank
  <2>1. CASE w \in Wanted
    BY <2>1 DEF Wanted
  <2>2. ASSUME NEW q \in Offers, w.name = q.name PROVE w.name # Blank
    <3>1. PICK k \in Mids : Offerable(rows, models[k]) /\ q.name = rows[models[k].pid].name
      BY DEF Offers, OffersOf
    <3>2. models[k].pid \in Pids /\ Here(rows[models[k].pid])
      BY <3>1, ModelRowIs DEF Offerable, TypedIInv, ModelRow
    <3>. QED
      BY <2>2, <3>1, <3>2 DEF Unambiguous
  <2>. QED
    BY <2>1, <2>2
<1>8. Validate(p, w.model) # Refused
  <2>. DEFINE S == {k \in ModelsOf(models, p) : models[k].model = w.model}
  <2>1. S = {m}
    BY <1>1, <1>3, <1>4 DEF ModelsOf, Unambiguous
  <2>2. First(models, S) = m
    <3>1. models[m].born <= models[m].born
      BY <1>3 DEF ModelRow
    <3>. QED
      BY <2>1, <3>1 DEF First
  <2>3. models[m].price # Refused /\ Unpriced # Refused
    BY <1>3 DEF ModelRow
  <2>4. CASE w.model = Blank
    BY <1>3, <2>3, <2>4 DEF Validate
  <2>5. CASE w.model # Blank
    <3>1. Validate(p, w.model) =
            IF S = {} THEN Refused
            ELSE IF models[First(models, S)].enabled THEN models[First(models, S)].price
            ELSE Refused
      BY <1>3, <2>5 DEF Validate
    <3>. HIDE DEF S
    <3>. QED
      BY <1>3, <2>1, <2>2, <2>3, <3>1
  <2>. QED
    BY <2>4, <2>5
<1>9. Lookup(w.name) \subseteq {p} /\ Named(w.name) # {}
  BY <1>5, <1>6 DEF Lookup
<1>. QED
  BY <1>7, <1>8, <1>9 DEF Runs

(* A selection answered or stored, and not overtaken by an edit since the   *)
(* catalogue was read, passes the check that starts a scan, while names are *)
(* neither blank nor repeated: whatever the sets of providers, models and   *)
(* requests, and for both repositories.                                     *)
THEOREM FreshSelectionsRun == Spec => []SelectionRuns
<1>1. CatalogInv /\ TypedIInv /\ PickInv => SelectionRuns
  <2>. SUFFICES ASSUME CatalogInv, TypedIInv, PickInv, Unambiguous, NEW u \in Users, Fresh(u)
                PROVE  Runs(pick[u].answer)
    BY DEF SelectionRuns
  <2>1. /\ PickFine(pick[u]) /\ pick[u].pc = "answered" /\ pick[u].answer # None
        /\ pick[u].at = clock
    BY DEF PickInv, Fresh
  <2>. QED
    BY <2>1, OfferedRuns DEF PickFine
<1>. QED
  BY <1>1, CatalogInvariant, TypedInvariant, PickInvariant, PTL
=============================================================================
