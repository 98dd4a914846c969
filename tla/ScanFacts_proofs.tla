--------------------------- MODULE ScanFacts_proofs ---------------------------
(***************************************************************************)
(* Proofs about ScanFacts, for any machines, serial numbers and lists of   *)
(* interfaces.  The types are inductive as they stand; the NICs of an      *)
(* asset are those of the scan that was applied to it last.  For serial    *)
(* numbers the invariant is that a request whose row nobody has written    *)
(* since has the serial number that the row has.                           *)
(***************************************************************************)
EXTENDS ScanFacts, TLAPS, WellFoundedInduction

USE NoSerialAssumption, NoMacAssumption, InterfacesAssumption

-------------------------------------------------------------------------------
(* A set of places has a first one. *)
LEMMA First ==
  ASSUME NEW T, T \subseteq Nat, T # {}
  PROVE  \E x \in T : \A y \in T : ~(y < x)
<1> DEFINE R == OpToRel(<, Nat)
<1>1. \A x, y \in Nat : y < x => <<y, x>> \in R
  BY DEF OpToRel
<1>2. IsWellFoundedOn(R, Nat)
  BY NatLessThanWellFounded
<1> HIDE DEF R
<1>3. \E x \in T : \A y \in T : ~(<<y, x>> \in R)
  BY <1>2, WFMin, Zenon
<1>4. QED
  BY <1>1, <1>3

LEMMA NicOf ==
  ASSUME NEW a \in Mac, NEW b \in BOOLEAN
  PROVE  /\ [mac |-> a, is_primary |-> b] \in Nic
         /\ [mac |-> a, is_primary |-> b].mac = a
         /\ [mac |-> a, is_primary |-> b].is_primary <=> b
BY DEF Nic

(* What _collect_network answers. *)
LEMMA Collected ==
  ASSUME NEW ifs \in Interfaces
  PROVE  /\ Linked(ifs) \subseteq Nat
         /\ _collect_network(ifs) \in [Linked(ifs) -> Nic]
         /\ \A k \in Linked(ifs) : /\ _collect_network(ifs)[k].mac = ifs[k].mac
                                   /\ _collect_network(ifs)[k].is_primary => ifs[k].usable
         /\ \A j, k \in Linked(ifs) :
              _collect_network(ifs)[j].is_primary /\ _collect_network(ifs)[k].is_primary => j = k
<1>1. ifs \in Seq(Interface)
  OBVIOUS
<1>2. \A k \in Linked(ifs) : k \in Nat /\ ifs[k].mac \in Mac /\ ifs[k].usable \in BOOLEAN
  <2>1. \A k \in Linked(ifs) : k \in Nat /\ ifs[k] \in Interface /\ ifs[k].mac # NoMac
    BY <1>1 DEF Linked
  <2>2. \A i \in Interface : i.mac \in Mac \cup {NoMac} /\ i.usable \in BOOLEAN
    BY DEF Interface
  <2>3. QED
    BY <2>1, <2>2, Zenon
<1>3. \A k \in Linked(ifs) : /\ _collect_network(ifs)[k] \in Nic
                             /\ _collect_network(ifs)[k].mac = ifs[k].mac
                             /\ _collect_network(ifs)[k].is_primary
                                  <=> ifs[k].usable /\ \A j \in Linked(ifs) : j < k => ~ifs[j].usable
  <2> SUFFICES ASSUME NEW k \in Linked(ifs)
               PROVE  /\ _collect_network(ifs)[k] \in Nic
                      /\ _collect_network(ifs)[k].mac = ifs[k].mac
                      /\ _collect_network(ifs)[k].is_primary
                           <=> ifs[k].usable /\ \A j \in Linked(ifs) : j < k => ~ifs[j].usable
    OBVIOUS
  <2> DEFINE b == ifs[k].usable /\ \A j \in Linked(ifs) : j < k => ~ifs[j].usable
  <2>1. _collect_network(ifs)[k] = [mac |-> ifs[k].mac, is_primary |-> b]
    BY DEF _collect_network
  <2>2. b \in BOOLEAN
    OBVIOUS
  <2> HIDE DEF b
  <2>3. /\ [mac |-> ifs[k].mac, is_primary |-> b] \in Nic
        /\ [mac |-> ifs[k].mac, is_primary |-> b].mac = ifs[k].mac
        /\ [mac |-> ifs[k].mac, is_primary |-> b].is_primary <=> b
    BY <1>2, <2>2, NicOf
  <2>4. QED
    BY <2>1, <2>3, Zenon DEF b
<1>4. _collect_network(ifs) \in [Linked(ifs) -> Nic]
  BY <1>3 DEF _collect_network
<1>5. QED
  BY <1>2, <1>3, <1>4

(* The payload, with the places of its NICs, and what of it is not collected. *)
Places(failing, ifs) == IF "network" \in failing THEN {} ELSE Linked(ifs)

LEMMA Payload ==
  ASSUME NEW failing \in SUBSET Section, NEW serial \in _collect_hardware, NEW ifs \in Interfaces,
         NEW p, p = collect_all(failing, serial, ifs)
  PROVE  /\ p.system <=> "system" \notin failing
         /\ p.serial = IF "hardware" \in failing THEN NoSerial ELSE serial
         /\ p.serial \in AnySerial
         /\ Places(failing, ifs) \subseteq Nat /\ p.nics \in [Places(failing, ifs) -> Nic]
         /\ "network" \notin failing => p.nics = _collect_network(ifs)
<1>1. /\ p.nics = IF "network" \in failing THEN <<>> ELSE _collect_network(ifs)
      /\ p.serial = IF "hardware" \in failing THEN NoSerial ELSE serial
  BY DEF collect_all
<1>2. p.system = ("system" \notin failing)
  BY DEF collect_all
<1>3. p.serial \in AnySerial
  BY <1>1 DEF _collect_hardware, AnySerial
<1>4. Places(failing, ifs) \subseteq Nat /\ p.nics \in [Places(failing, ifs) -> Nic]
  <2>1. CASE "network" \in failing
    BY <1>1, <2>1 DEF Places
  <2>2. CASE "network" \notin failing
    BY <1>1, <2>2, Collected DEF Places
  <2>3. QED
    BY <2>1, <2>2
<1>5. p.system <=> "system" \notin failing
  BY <1>2, Zenon
<1>6. QED
  BY <1>1, <1>3, <1>4, <1>5

(* The rows that are created: one of each MAC, and one at least if there is *)
(* a NIC at all.                                                            *)
Rows(p) == {nics_to_create(p)[k] : k \in DOMAIN nics_to_create(p)}

LEMMA Created ==
  ASSUME NEW p, NEW D, D \subseteq Nat, p.nics \in [D -> Nic]
  PROVE  /\ DOMAIN nics_to_create(p) \subseteq D
         /\ \A k \in DOMAIN nics_to_create(p) : nics_to_create(p)[k] = p.nics[k]
         /\ uniq_asset_mac(p)
         /\ Rows(p) \subseteq Nic
         /\ D # {} => Rows(p) # {}
<1> DEFINE rows == nics_to_create(p)
<1>1. /\ DOMAIN rows = {i \in D : \A j \in D : j < i => p.nics[j].mac # p.nics[i].mac}
      /\ \A k \in DOMAIN rows : rows[k] = p.nics[k]
  BY DEF nics_to_create
<1> HIDE DEF rows
<1>2. uniq_asset_mac(p)
  <2>1. ASSUME NEW j \in DOMAIN rows, NEW k \in DOMAIN rows, rows[j].mac = rows[k].mac PROVE j = k
    <3>1. j \in D /\ k \in D /\ p.nics[j].mac = p.nics[k].mac
      BY <1>1, <2>1
    <3>2. \A i \in DOMAIN rows : \A y \in D : y < i => p.nics[y].mac # p.nics[i].mac
      BY <1>1, Zenon
    <3>3. ~(j < k) /\ ~(k < j)
      BY <3>1, <3>2, Zenon
    <3>4. j \in Nat /\ k \in Nat
      BY <3>1
    <3>5. QED
      BY <3>3, <3>4
  <2>2. QED
    BY <2>1 DEF uniq_asset_mac, rows
<1>3. Rows(p) \subseteq Nic
  <2>1. \A k \in DOMAIN rows : rows[k] \in Nic
    BY <1>1
  <2>2. QED
    BY <2>1 DEF Rows, rows
<1>4. ASSUME D # {} PROVE Rows(p) # {}
  <2>1. PICK x \in D : \A y \in D : ~(y < x)
    BY <1>4, First
  <2>2. x \in DOMAIN rows
    BY <1>1, <2>1
  <2>3. QED
    BY <2>2 DEF Rows, rows
<1>5. QED
  BY <1>1, <1>2, <1>3, <1>4 DEF rows

(* What a scan makes of an asset. *)
LEMMA Applied ==
  ASSUME NEW r \in AnySerial, NEW p, p.serial \in AnySerial, Rows(p) \subseteq Nic,
         NEW b, b = _apply_to_asset(r, p)
  PROVE  /\ b \in Asset
         /\ b.nics = Rows(p)
         /\ b.serial = IF p.serial # NoSerial THEN p.serial ELSE r
<1> DEFINE v == IF p.serial # NoSerial THEN p.serial ELSE r
           n == Rows(p)
<1>1. b = [serial |-> v, nics |-> n]
  BY DEF _apply_to_asset, Rows
<1>2. v \in AnySerial /\ n \in SUBSET Nic
  BY Zenon
<1>3. v = IF p.serial # NoSerial THEN p.serial ELSE r
  OBVIOUS
<1> HIDE DEF v, n
<1>4. QED
  BY <1>1, <1>2, <1>3 DEF Asset, n

-------------------------------------------------------------------------------
LEMMA NewTyped ==
  /\ NewAsset \in Asset /\ NewAsset.nics = {} /\ NewAsset.serial = NoSerial
  /\ NoReport \in Report /\ NoReport.system /\ NoReport.interfaces = <<>>
<1>1. NewAsset \in Asset /\ NewAsset.nics = {} /\ NewAsset.serial = NoSerial
  BY DEF NewAsset, Asset, AnySerial
<1>2. NoReport \in Report /\ NoReport.system /\ NoReport.interfaces = <<>>
  BY DEF NoReport, Report
<1>3. QED
  BY <1>1, <1>2

LEMMA ReportTyped ==
  ASSUME NEW b \in BOOLEAN, NEW ifs \in Interfaces
  PROVE  /\ [system |-> b, interfaces |-> ifs] \in Report
         /\ [system |-> b, interfaces |-> ifs].interfaces = ifs
         /\ [system |-> b, interfaces |-> ifs].system <=> b
BY DEF Report

(* The kinds of requests, and what news makes of one. *)
LEMMA Requests ==
  ASSUME NEW r \in {Idle} \cup Request, r.op # "idle"
  PROVE  /\ r \in Request /\ r.op \in {"scan", "edit"} /\ r.of \in Machine
         /\ r.serial \in AnySerial /\ r.since \in {"nothing", "written", "deleted"}
BY DEF Idle, Request

LEMMA News ==
  ASSUME TypeOK, NEW v \in Worker, NEW m \in Machine, NEW news \in {"written", "deleted"},
         NEW r, r = Told(v, m, news)
  PROVE  /\ r \in {Idle} \cup Request
         /\ r.op # "idle" /\ r.since = "nothing" => r = req[v] /\ req[v].of # m
<1>1. req[v] \in {Idle} \cup Request
  BY DEF TypeOK
<1>2. CASE Busy(v) /\ req[v].of = m /\ req[v].since # "deleted"
  <2>1. r = [op |-> req[v].op, of |-> m, serial |-> req[v].serial, since |-> news]
    BY <1>2 DEF Told
  <2>2. r \in Request /\ r.since = news
    BY <1>1, <1>2, <2>1, Requests DEF Busy, Request
  <2>3. QED
    BY <2>2
<1>3. CASE ~(Busy(v) /\ req[v].of = m /\ req[v].since # "deleted")
  <2>1. r = req[v]
    BY <1>3, Zenon DEF Told
  <2>2. QED
    BY <1>1, <1>3, <2>1 DEF Busy
<1>4. QED
  BY <1>2, <1>3

(* The effect of a step on one machine's asset. *)
Scans(w, failing, serial, ifs) ==
  LET p == collect_all(failing, serial, ifs)
      m == req[w].of
  IN  /\ req[w].op = "scan" /\ Accepts(w, p)
      /\ asset'[m] = _apply_to_asset(req[w].serial, p)
      /\ reported'[m] = [system |-> p.system, interfaces |-> ifs]
Scanned(m) ==
  \E w \in Worker, failing \in SUBSET Section, serial \in _collect_hardware, ifs \in Interfaces :
    req[w].of = m /\ req'[w] = Idle /\ Scans(w, failing, serial, ifs)
Edited(m) ==
  \E w \in Worker :
    /\ req[w].op = "edit" /\ req[w].of = m /\ req[w].since # "deleted" /\ req'[w] = Idle
    /\ asset'[m].serial = req[w].serial /\ asset'[m].nics = asset[m].nics
    /\ asset'[m] \in Asset /\ reported'[m] = reported[m]
Same(m) == asset'[m] = asset[m] /\ reported'[m] = reported[m]
Others(m) == \A n \in Machine \ {m} : Same(n)

LEMMA ScanStep ==
  ASSUME TypeOK, NEW w \in Worker, NEW failing \in SUBSET Section, NEW serial \in _collect_hardware,
         NEW ifs \in Interfaces, do_full_scan(w, failing, serial, ifs)
  PROVE  /\ req[w].of \in Machine /\ Scanned(req[w].of) /\ Others(req[w].of)
         /\ DOMAIN asset' = Machine /\ DOMAIN reported' = Machine
         /\ asset' = [n \in Machine |-> asset'[n]] /\ reported' = [n \in Machine |-> reported'[n]]
<1> DEFINE m == req[w].of
           p == collect_all(failing, serial, ifs)
           a == _apply_to_asset(req[w].serial, p)
           r == [system |-> p.system, interfaces |-> ifs]
<1>1. asset = [n \in Machine |-> asset[n]] /\ reported = [n \in Machine |-> reported[n]]
  BY DEF TypeOK
<1>2. /\ req[w].op = "scan" /\ Accepts(w, p)
      /\ asset' = [asset EXCEPT ![m] = a]
      /\ reported' = [reported EXCEPT ![m] = r]
      /\ Commit(w)
  BY Zenon DEF do_full_scan, ingest_scan
<1>3. req[w].of \in Machine
  BY <1>2, Requests DEF TypeOK
<1>4. req'[w] = Idle
  BY <1>2 DEF Commit
<1> HIDE DEF a, r, p
<1>5. /\ asset'[m] = a /\ reported'[m] = r /\ Others(m)
      /\ DOMAIN asset' = Machine /\ DOMAIN reported' = Machine
      /\ asset' = [n \in Machine |-> asset'[n]] /\ reported' = [n \in Machine |-> reported'[n]]
  BY <1>1, <1>2, <1>3 DEF Others, Same
<1>6. Scans(w, failing, serial, ifs)
  BY <1>2, <1>5 DEF Scans, a, r, p
<1>7. Scanned(m)
  BY <1>4, <1>6 DEF Scanned
<1>8. QED
  BY <1>3, <1>5, <1>7

LEMMA EditStep ==
  ASSUME TypeOK, NEW w \in Worker, save_edit(w)
  PROVE  /\ req[w].of \in Machine /\ Edited(req[w].of) /\ Others(req[w].of)
         /\ DOMAIN asset' = Machine /\ DOMAIN reported' = Machine
         /\ asset' = [n \in Machine |-> asset'[n]] /\ reported' = [n \in Machine |-> reported'[n]]
<1> DEFINE m == req[w].of
           s == req[w].serial
<1>1. asset = [n \in Machine |-> asset[n]] /\ reported = [n \in Machine |-> reported[n]]
  BY DEF TypeOK
<1>2. /\ req[w].op = "edit" /\ req[w].since # "deleted" /\ Commit(w)
      /\ asset' = [asset EXCEPT ![m].serial = s] /\ reported' = reported
  BY DEF save_edit
<1>3. m \in Machine /\ s \in AnySerial
  BY <1>2, Requests DEF TypeOK
<1>4. req'[w] = Idle
  BY <1>2 DEF Commit
<1>5. asset[m] \in Asset
  BY <1>3 DEF TypeOK
<1> HIDE DEF m, s
<1>6. asset'[m] = [asset[m] EXCEPT !.serial = s] /\ Others(m)
  BY <1>1, <1>2, <1>3 DEF Others, Same
<1>7. asset'[m].serial = s /\ asset'[m].nics = asset[m].nics /\ asset'[m] \in Asset
  BY <1>3, <1>5, <1>6 DEF Asset
<1>8. Edited(m)
  BY <1>2, <1>4, <1>7 DEF Edited, m, s
<1>9. /\ DOMAIN asset' = Machine /\ DOMAIN reported' = Machine
      /\ asset' = [n \in Machine |-> asset'[n]] /\ reported' = [n \in Machine |-> reported'[n]]
  BY <1>1, <1>2
<1>10. QED
  BY <1>3, <1>6, <1>8, <1>9 DEF m

LEMMA Effect ==
  ASSUME TypeOK, [Next]_vars
  PROVE  /\ asset' = [n \in Machine |-> asset'[n]] /\ reported' = [n \in Machine |-> reported'[n]]
         /\ \A m \in Machine : destroy(m) \/ Scanned(m) \/ Edited(m) \/ Same(m)
<1>1. asset = [n \in Machine |-> asset[n]] /\ reported = [n \in Machine |-> reported[n]]
  BY DEF TypeOK
<1>2. ASSUME NEW m \in Machine, destroy(m)
      PROVE  /\ Others(m)
             /\ asset' = [n \in Machine |-> asset'[n]] /\ reported' = [n \in Machine |-> reported'[n]]
  BY <1>1, <1>2 DEF destroy, Others, Same
<1>3. CASE UNCHANGED <<asset, reported>>
  BY <1>1, <1>3 DEF Same
<1>4. CASE \E m \in Machine : destroy(m)
  BY <1>2, <1>4 DEF Others
<1>5. CASE \E w \in Worker : \E failing \in SUBSET Section, serial \in _collect_hardware, ifs \in Interfaces :
             do_full_scan(w, failing, serial, ifs)
  BY <1>5, ScanStep DEF Others
<1>6. CASE \E w \in Worker : save_edit(w)
  BY <1>6, EditStep DEF Others
<1>7. \/ \E m \in Machine : destroy(m)
      \/ \E w \in Worker : \E failing \in SUBSET Section, serial \in _collect_hardware, ifs \in Interfaces :
             do_full_scan(w, failing, serial, ifs)
      \/ \E w \in Worker : save_edit(w)
      \/ UNCHANGED <<asset, reported>>
  BY Zenon DEF Next, vars, scan, partial_update, Begin, insert_edit, fails, destroy_unmanaged
<1>8. QED
  BY <1>3, <1>4, <1>5, <1>6, <1>7

(* A scan, told by its effects. *)
LEMMA ScanEffect ==
  ASSUME TypeOK, NEW w \in Worker, NEW failing \in SUBSET Section, NEW serial \in _collect_hardware,
         NEW ifs \in Interfaces, Scans(w, failing, serial, ifs)
  PROVE  LET p == collect_all(failing, serial, ifs)
             m == req[w].of
         IN
         /\ asset'[m] \in Asset /\ req[w].since # "deleted"
         /\ reported'[m] \in Report /\ reported'[m].system /\ reported'[m].interfaces = ifs
         /\ asset'[m].serial = NoSerial => req[w].serial = NoSerial
         /\ asset'[m].nics = Rows(p)
         /\ "network" \notin failing => p.nics = _collect_network(ifs)
         /\ "network" \in failing => p.nics \in [{} -> Nic]
<1> DEFINE D == Places(failing, ifs)
           p == collect_all(failing, serial, ifs)
           m == req[w].of
<1>0. p = collect_all(failing, serial, ifs)
  OBVIOUS
<1>1. /\ req[w].op = "scan" /\ Accepts(w, p)
      /\ asset'[m] = _apply_to_asset(req[w].serial, p)
      /\ reported'[m] = [system |-> p.system, interfaces |-> ifs]
  BY DEF Scans
<1> HIDE DEF p, m, D
<1>2. p.serial \in AnySerial
  BY <1>0, Payload
<1>3. D \subseteq Nat
  BY <1>0, Payload DEF D
<1>4. p.nics \in [D -> Nic]
  BY <1>0, Payload DEF D
<1>5. "network" \notin failing => p.nics = _collect_network(ifs)
  BY <1>0, Payload
<1>6. Rows(p) \subseteq Nic
  BY <1>3, <1>4, Created
<1>7. req[w].serial \in AnySerial
  BY <1>1, Requests DEF TypeOK
<1>8. asset'[m] \in Asset
  BY <1>1, <1>2, <1>6, <1>7, Applied
<1>9. asset'[m].nics = Rows(p)
  BY <1>1, <1>2, <1>6, <1>7, Applied
<1>10. asset'[m].serial = IF p.serial # NoSerial THEN p.serial ELSE req[w].serial
  BY <1>1, <1>2, <1>6, <1>7, Applied
<1>11. req[w].since # "deleted" /\ p.system
  BY <1>1 DEF Accepts, Valid
<1>12. reported'[m] \in Report /\ reported'[m].system /\ reported'[m].interfaces = ifs
  <2>1. p.system \in BOOLEAN
    <3>1. p.system = ("system" \notin failing)
      BY <1>0, Zenon DEF collect_all
    <3>2. ("system" \notin failing) \in BOOLEAN
      OBVIOUS
    <3>3. QED
      BY <3>1, <3>2, Zenon
  <2> DEFINE b == p.system
  <2>2. b \in BOOLEAN /\ b /\ reported'[m] = [system |-> b, interfaces |-> ifs]
    BY <1>1, <1>11, <2>1, Zenon
  <2> HIDE DEF b
  <2>3. QED
    BY <2>2, ReportTyped, Zenon
<1>13. "network" \in failing => p.nics \in [{} -> Nic]
  BY <1>4 DEF D, Places
<1>14. QED
  BY <1>5, <1>8, <1>9, <1>10, <1>11, <1>12, <1>13 DEF p, m

-------------------------------------------------------------------------------
(* A request whose row nobody wrote since has what is in it. *)
Fresh ==
  \A w \in Worker : Busy(w) /\ req[w].since = "nothing" => req[w].serial = asset[req[w].of].serial

LEMMA AssetsKept ==
  ASSUME TypeOK, [Next]_vars
  PROVE  /\ asset' \in [Machine -> Asset] /\ reported' \in [Machine -> Report]
         /\ \A m \in Machine : reported'[m].system
<1>1. \A m \in Machine : asset'[m] \in Asset /\ reported'[m] \in Report /\ reported'[m].system
  <2> SUFFICES ASSUME NEW m \in Machine
               PROVE  asset'[m] \in Asset /\ reported'[m] \in Report /\ reported'[m].system
    OBVIOUS
  <2>1. CASE destroy(m)
    <3>1. asset'[m] = NewAsset /\ reported'[m] = NoReport
      BY <2>1 DEF destroy, TypeOK
    <3>2. QED
      BY <3>1, NewTyped
  <2>2. CASE Scanned(m)
    BY <2>2, ScanEffect DEF Scanned
  <2>3. CASE Edited(m)
    BY <2>3 DEF Edited, TypeOK
  <2>4. CASE Same(m)
    BY <2>4 DEF Same, TypeOK
  <2>5. QED
    BY <2>1, <2>2, <2>3, <2>4, Effect
<1>2. QED
  BY <1>1, Effect

(* Each step gives a worker a new request, ends one, or is news to some.    *)
LEMMA RequestsKept ==
  ASSUME TypeOK, Fresh, [Next]_vars
  PROVE  req' \in [Worker -> {Idle} \cup Request] /\ Fresh'
<1>0. req \in [Worker -> {Idle} \cup Request]
  BY DEF TypeOK
<1>1. ASSUME NEW w \in Worker, NEW op \in {"scan", "edit"}, NEW m \in Machine, Begin(w, op, m)
      PROVE  req' \in [Worker -> {Idle} \cup Request] /\ Fresh'
  <2> DEFINE r == [op |-> op, of |-> m, serial |-> asset[m].serial, since |-> "nothing"]
  <2>1. req' = [req EXCEPT ![w] = r] /\ asset' = asset
    BY <1>1 DEF Begin
  <2>2. asset[m].serial \in AnySerial
    BY DEF TypeOK, Asset
  <2>3. r \in Request /\ r.serial = asset[r.of].serial
    BY <2>2 DEF Request
  <2> HIDE DEF r
  <2>4. QED
    BY <1>0, <2>1, <2>3 DEF Fresh, Busy
<1>2. ASSUME NEW w \in Worker, Finish(w), asset' = asset
      PROVE  req' \in [Worker -> {Idle} \cup Request] /\ Fresh'
  <2>1. req' = [req EXCEPT ![w] = Idle] /\ Idle.op = "idle"
    BY <1>2 DEF Finish, Idle
  <2>2. QED
    BY <1>0, <1>2, <2>1 DEF Fresh, Busy
<1>3. ASSUME NEW m \in Machine, NEW news \in {"written", "deleted"}, Others(m), DOMAIN req' = Worker,
             \A v \in Worker : req'[v] = Idle \/ req'[v] = Told(v, m, news), req' = [v \in Worker |-> req'[v]]
      PROVE  req' \in [Worker -> {Idle} \cup Request] /\ Fresh'
  <2>1. \A v \in Worker : req'[v] \in {Idle} \cup Request
    BY <1>3, News
  <2>2. ASSUME NEW v \in Worker, req'[v].op # "idle", req'[v].since = "nothing"
        PROVE  req'[v].serial = asset'[req'[v].of].serial
    <3>1. req'[v] = Told(v, m, news)
      BY <1>3, <2>2 DEF Idle
    <3>2. req'[v] = req[v] /\ req[v].of # m
      BY <2>2, <3>1, News
    <3>3. req[v].of \in Machine
      BY <1>0, <2>2, <3>2, Requests
    <3>4. asset'[req[v].of] = asset[req[v].of]
      BY <1>3, <3>2, <3>3 DEF Others, Same
    <3>5. req[v].serial = asset[req[v].of].serial
      BY <2>2, <3>2 DEF Fresh, Busy
    <3>6. QED
      BY <3>2, <3>4, <3>5
  <2>3. QED
    BY <1>3, <2>1, <2>2 DEF Fresh, Busy
<1>4. ASSUME NEW w \in Worker, Commit(w), req[w].of \in Machine, Others(req[w].of)
      PROVE  req' \in [Worker -> {Idle} \cup Request] /\ Fresh'
  <2>1. req' = [v \in Worker |-> IF v = w THEN Idle ELSE Told(v, req[w].of, "written")]
    BY <1>4 DEF Commit
  <2>2. /\ \A v \in Worker : req'[v] = Idle \/ req'[v] = Told(v, req[w].of, "written")
        /\ req' = [v \in Worker |-> req'[v]] /\ DOMAIN req' = Worker
    BY <2>1, Zenon
  <2>3. QED
    BY <1>3, <1>4, <2>2
<1>5. CASE UNCHANGED <<req, asset>>
  BY <1>0, <1>5 DEF Fresh, Busy
<1>6. CASE \E m \in Machine : destroy(m)
  <2>1. PICK m \in Machine : destroy(m)
    BY <1>6
  <2>2. req' = [v \in Worker |-> Told(v, m, "deleted")]
    BY <2>1 DEF destroy
  <2>3. Others(m)
    BY <2>1 DEF destroy, Others, Same, TypeOK
  <2>4. /\ \A v \in Worker : req'[v] = Told(v, m, "deleted")
        /\ req' = [v \in Worker |-> req'[v]] /\ DOMAIN req' = Worker
    BY <2>2, Zenon
  <2>5. QED
    BY <1>3, <2>3, <2>4
<1>7. CASE \E w \in Worker : \E failing \in SUBSET Section, serial \in _collect_hardware, ifs \in Interfaces :
             do_full_scan(w, failing, serial, ifs)
  <2>1. PICK w \in Worker, failing \in SUBSET Section, serial \in _collect_hardware, ifs \in Interfaces :
          do_full_scan(w, failing, serial, ifs)
    BY <1>7
  <2>2. req[w].of \in Machine /\ Others(req[w].of)
    BY <2>1, ScanStep
  <2>3. Commit(w)
    BY <2>1 DEF do_full_scan
  <2>4. QED
    BY <1>4, <2>2, <2>3
<1>8. CASE \E w \in Worker : save_edit(w)
  <2>1. PICK w \in Worker : save_edit(w)
    BY <1>8
  <2>2. req[w].of \in Machine /\ Others(req[w].of)
    BY <2>1, EditStep
  <2>3. Commit(w)
    BY <2>1 DEF save_edit
  <2>4. QED
    BY <1>4, <2>2, <2>3
<1>9. CASE \E w \in Worker : insert_edit(w) \/ fails(w)
  BY <1>2, <1>9 DEF insert_edit, fails
<1>10. CASE \E w \in Worker : \E m \in Machine : scan(w, m) \/ partial_update(w, m)
  BY <1>1, <1>10 DEF scan, partial_update
<1>11. CASE \E s \in Serial : destroy_unmanaged(s)
  BY <1>5, <1>11 DEF destroy_unmanaged
<1>12. CASE UNCHANGED vars
  BY <1>5, <1>12 DEF vars
<1>13. QED
  BY <1>6, <1>7, <1>8, <1>9, <1>10, <1>11, <1>12 DEF Next

LEMMA UnmanagedKept ==
  ASSUME TypeOK, [Next]_vars
  PROVE  unmanaged' \subseteq Serial
<1>1. ASSUME NEW w \in Worker, insert_edit(w) PROVE unmanaged' \subseteq Serial
  <2>1. req[w].op = "edit" /\ unmanaged' = unmanaged \cup ({req[w].serial} \ {NoSerial})
    BY <1>1 DEF insert_edit
  <2>2. req[w].serial \in AnySerial
    BY <2>1, Requests DEF TypeOK
  <2>3. QED
    BY <2>1, <2>2 DEF TypeOK, AnySerial
<1>2. ASSUME NEW s \in Serial, destroy_unmanaged(s) PROVE unmanaged' \subseteq Serial
  BY <1>2 DEF destroy_unmanaged, TypeOK
<1>3. \/ \E w \in Worker : insert_edit(w)
      \/ \E s \in Serial : destroy_unmanaged(s)
      \/ UNCHANGED unmanaged
  BY Zenon DEF Next, vars, scan, partial_update, Begin, save_edit, fails, do_full_scan, destroy
<1>4. QED
  BY <1>1, <1>2, <1>3 DEF TypeOK

IInv == TypeOK /\ Fresh

LEMMA Inductive == Spec => []IInv
<1>1. Init => IInv
  <2> SUFFICES ASSUME Init PROVE IInv
    OBVIOUS
  <2>1. asset \in [Machine -> Asset] /\ reported \in [Machine -> Report] /\ \A m \in Machine : reported[m].system
    BY NewTyped DEF Init
  <2>2. req \in [Worker -> {Idle} \cup Request] /\ unmanaged = {}
    BY DEF Init
  <2>3. \A w \in Worker : req[w].op = "idle"
    BY DEF Init, Idle
  <2>4. QED
    BY <2>1, <2>2, <2>3 DEF IInv, TypeOK, Fresh, Busy
<1>2. IInv /\ [Next]_vars => IInv'
  <2> SUFFICES ASSUME TypeOK, Fresh, [Next]_vars PROVE TypeOK' /\ Fresh'
    BY DEF IInv
  <2>1. QED
    BY AssetsKept, RequestsKept, UnmanagedKept DEF TypeOK
<1>3. QED
  BY <1>1, <1>2, PTL DEF Spec

(* Assets, NICs and requests stay in their domains; a scan that does not    *)
(* know its system is never stored.                                         *)
THEOREM TypeCorrect == Spec => []TypeOK
<1>1. IInv => TypeOK
  BY DEF IInv
<1>2. QED
  BY <1>1, Inductive, PTL

-------------------------------------------------------------------------------
(* Of the rows one asset gets from one scan.                                *)
LEMMA RowsPrimary ==
  ASSUME NEW ifs \in Interfaces, NEW p, p.nics = _collect_network(ifs),
         NEW x \in Rows(p), NEW y \in Rows(p)
  PROVE  /\ x.mac = y.mac => x = y
         /\ x.is_primary /\ y.is_primary => x = y
         /\ x.is_primary => \E i \in DOMAIN ifs : ifs[i].mac = x.mac /\ ifs[i].usable
<1> DEFINE D == Linked(ifs)
           rows == nics_to_create(p)
<1>1. /\ D \subseteq Nat /\ p.nics \in [D -> Nic]
      /\ \A k \in D : p.nics[k].mac = ifs[k].mac /\ (p.nics[k].is_primary => ifs[k].usable)
      /\ \A j, k \in D : p.nics[j].is_primary /\ p.nics[k].is_primary => j = k
  BY Collected
<1>2. /\ DOMAIN rows \subseteq D
      /\ \A k \in DOMAIN rows : rows[k] = p.nics[k]
      /\ uniq_asset_mac(p)
  BY <1>1, Created
<1>3. PICK j \in DOMAIN rows, k \in DOMAIN rows : x = rows[j] /\ y = rows[k]
  BY DEF Rows
<1>4. x.mac = y.mac => j = k
  BY <1>2, <1>3 DEF uniq_asset_mac
<1> HIDE DEF rows
<1>5. x.is_primary /\ y.is_primary => j = k
  BY <1>1, <1>2, <1>3
<1>6. x.is_primary => ifs[j].mac = x.mac /\ ifs[j].usable /\ j \in DOMAIN ifs
  BY <1>1, <1>2, <1>3 DEF Linked
<1>7. QED
  BY <1>3, <1>4, <1>5, <1>6

(* At most one NIC of an asset is the primary, and one that the machine was *)
(* reachable by when it was scanned.                                        *)
THEOREM PrimaryWasReachable == Spec => []PrimaryIsReachable
<1> DEFINE Reachable(a, ifs) ==
      \A x, y \in a.nics :
        /\ x.mac = y.mac => x = y
        /\ x.is_primary /\ y.is_primary => x = y
        /\ x.is_primary => \E i \in DOMAIN ifs : ifs[i].mac = x.mac /\ ifs[i].usable
<1>1. Init => PrimaryIsReachable
  BY NewTyped DEF Init, PrimaryIsReachable
<1>2. TypeOK /\ PrimaryIsReachable /\ [Next]_vars => PrimaryIsReachable'
  <2> SUFFICES ASSUME TypeOK, PrimaryIsReachable, [Next]_vars, NEW m \in Machine
               PROVE  Reachable(asset'[m], reported'[m].interfaces)
    BY DEF PrimaryIsReachable
  <2>0. Reachable(asset[m], reported[m].interfaces)
    BY DEF PrimaryIsReachable
  <2>1. CASE destroy(m)
    <3>1. asset'[m] = NewAsset
      BY <2>1 DEF destroy, TypeOK
    <3>2. QED
      BY <3>1, NewTyped
  <2>2. CASE Same(m)
    BY <2>0, <2>2 DEF Same
  <2>3. CASE Edited(m)
    <3>1. asset'[m].nics = asset[m].nics /\ reported'[m] = reported[m]
      BY <2>3 DEF Edited
    <3>2. QED
      BY <2>0, <3>1
  <2>4. CASE Scanned(m)
    <3>1. PICK w \in Worker, failing \in SUBSET Section, serial \in _collect_hardware, ifs \in Interfaces :
            req[w].of = m /\ Scans(w, failing, serial, ifs)
      BY <2>4 DEF Scanned
    <3> DEFINE p == collect_all(failing, serial, ifs)
    <3>2. /\ reported'[m].interfaces = ifs /\ asset'[m].nics = Rows(p)
          /\ "network" \notin failing => p.nics = _collect_network(ifs)
          /\ "network" \in failing => p.nics \in [{} -> Nic]
      BY <3>1, ScanEffect
    <3> HIDE DEF p
    <3>3. CASE "network" \notin failing
      BY <3>2, <3>3, RowsPrimary
    <3>4. CASE "network" \in failing
      <4>1. Rows(p) = {}
        BY <3>2, <3>4, Created DEF Rows
      <4>2. QED
        BY <3>2, <4>1
    <3>5. QED
      BY <3>3, <3>4
  <2>5. QED
    BY <2>1, <2>2, <2>3, <2>4, Effect
<1>3. QED
  BY <1>1, <1>2, TypeCorrect, PTL DEF Spec

(* Whatever fails on the endpoint and however stale the row it read, a scan *)
(* that knows its system is accepted, unless another row has its serial     *)
(* number or its asset is deleted.                                          *)
THEOREM HealthyAccepted == Spec => []HealthyScansAccepted
<1>1. TypeOK => HealthyScansAccepted
  <2> SUFFICES ASSUME TypeOK, NEW w \in Worker, NEW failing \in SUBSET (Section \ {"system"}),
                      NEW ifs \in Interfaces, NEW serial \in _collect_hardware,
                      req[w].since # "deleted",
                      LET known == IF "hardware" \in failing \/ serial = NoSerial THEN req[w].serial
                                                                                  ELSE serial
                      IN  uniq_asset_serial({req[w].of}, known)
               PROVE  Accepts(w, collect_all(failing, serial, ifs))
    BY DEF HealthyScansAccepted
  <2> DEFINE p == collect_all(failing, serial, ifs)
             b == _apply_to_asset(req[w].serial, p)
  <2>0. p = collect_all(failing, serial, ifs) /\ failing \in SUBSET Section
    OBVIOUS
  <2>1. b.serial = IF p.serial # NoSerial THEN p.serial ELSE req[w].serial
    BY DEF _apply_to_asset
  <2>2. p.system = ("system" \notin failing)
    BY DEF collect_all
  <2> HIDE DEF p
  <2>3. p.serial = IF "hardware" \in failing THEN NoSerial ELSE serial
    BY <2>0, Payload
  <2>4. uniq_asset_mac(p)
    <3>1. Places(failing, ifs) \subseteq Nat
      BY <2>0, Payload
    <3>2. p.nics \in [Places(failing, ifs) -> Nic]
      BY <2>0, Payload
    <3>3. QED
      BY <3>1, <3>2, Created
  <2>5. b.serial = IF "hardware" \in failing \/ serial = NoSerial THEN req[w].serial ELSE serial
    BY <2>1, <2>3
  <2> HIDE DEF b
  <2>6. uniq_asset_serial({req[w].of}, b.serial)
    BY <2>5
  <2>7. Valid(p)
    <3>1. "system" \notin failing
      OBVIOUS
    <3>2. QED
      BY <2>2, <3>1, Zenon DEF Valid
  <2>8. QED
    BY <2>4, <2>6, <2>7 DEF Accepts, b, p
<1>2. QED
  BY <1>1, TypeCorrect, PTL

(* A serial number is lost with its asset, or to a request that read the    *)
(* row before another one wrote it.                                         *)
THEOREM SerialStays == Spec => SerialSticks
<1> DEFINE Stays ==
      \A m \in Machine : asset[m].serial # NoSerial /\ asset'[m].serial = NoSerial
        => \/ destroy(m)
           \/ \E w \in Worker : /\ Busy(w) /\ req'[w] = Idle
                                 /\ req[w].of = m /\ req[w].since = "written"
<1>1. IInv /\ [Next]_vars => [Stays]_vars
  <2> SUFFICES ASSUME TypeOK, Fresh, [Next]_vars, NEW m \in Machine,
                      asset[m].serial # NoSerial, asset'[m].serial = NoSerial, ~destroy(m)
               PROVE  \E w \in Worker : /\ Busy(w) /\ req'[w] = Idle
                                        /\ req[w].of = m /\ req[w].since = "written"
    BY DEF IInv
  <2>1. PICK w \in Worker : /\ Busy(w) /\ req'[w] = Idle /\ req[w].of = m /\ req[w].since # "deleted"
                            /\ req[w].serial = NoSerial
    <3>1. CASE Scanned(m)
      <4>1. PICK w \in Worker, failing \in SUBSET Section, serial \in _collect_hardware, ifs \in Interfaces :
              req[w].of = m /\ req'[w] = Idle /\ Scans(w, failing, serial, ifs)
        BY <3>1 DEF Scanned
      <4>2. req[w].since # "deleted" /\ req[w].serial = NoSerial
        BY <4>1, ScanEffect
      <4>3. Busy(w)
        BY <4>1 DEF Scans, Busy
      <4>4. QED
        BY <4>1, <4>2, <4>3
    <3>2. CASE Edited(m)
      BY <3>2 DEF Edited, Busy
    <3>3. CASE Same(m)
      BY <3>3 DEF Same
    <3>4. QED
      BY <3>1, <3>2, <3>3, Effect
  <2>2. req[w].since # "nothing"
    BY <2>1 DEF Fresh
  <2>3. req[w].since \in {"nothing", "written", "deleted"}
    BY <2>1, Requests DEF TypeOK, Busy
  <2>4. QED
    BY <2>1, <2>2, <2>3
<1>2. QED
  BY <1>1, Inductive, PTL DEF Spec, SerialSticks
===============================================================================
