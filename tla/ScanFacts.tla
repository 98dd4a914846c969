-------------------------------- MODULE ScanFacts --------------------------------
(***************************************************************************)
(* What a scan says and what the server makes of it: the collectors on the *)
(* endpoint, any of which may fail, the schema that accepts or refuses     *)
(* their payload, and the columns, NICs and constraints it is applied to.  *)
(*                                                                         *)
(*   collect_all, _collect_*     agent/azurscan_agent/collectors.py        *)
(*   ScanPayload                 apps/scanning/schemas.py                  *)
(*   _apply_to_asset             apps/scanning/services.py                 *)
(*                                                                         *)
(* A scan is two steps here, as is a PATCH: the row is read when the       *)
(* request is authenticated and written whole when it commits, whatever    *)
(* was written in between.  AssetRecord and AgentRuntime have what else    *)
(* happens on the way.  Of the row only the serial number is kept, for the *)
(* columns that a scan without a value leaves as they were read; NICs are  *)
(* deleted and inserted again (the disks of "storage" too).  Both sides    *)
(* write MACs in upper case.                                               *)
(***************************************************************************)
EXTENDS Naturals, Sequences, FiniteSets

CONSTANTS
  Worker,      \* request handlers
  Machine,     \* endpoints, each with its agent and its asset
  Serial,      \* serial numbers their firmware may report
  NoSerial,    \* ""
  Mac,         \* hardware addresses
  NoMac,       \* no AF_LINK address, or 00:00:00:00:00:00
  Interfaces   \* the lists of interfaces psutil may report

Interface == [mac : Mac \cup {NoMac},
              usable : BOOLEAN]  \* up, with an address outside of 127. and 169.254.

ASSUME NoSerialAssumption == NoSerial \notin Serial
ASSUME NoMacAssumption == NoMac \notin Mac
ASSUME InterfacesAssumption == Interfaces \subseteq Seq(Interface)

Section == {"system", "os", "hardware", "network"}

VARIABLES
  asset,     \* the Asset row of each machine's agent, and its NICs
  unmanaged, \* the serial numbers of rows that have no agent any more
  req,       \* the request each worker is in the middle of
  reported   \* history: what the last stored scan of each machine was of

vars == <<asset, unmanaged, req, reported>>

AnySerial == Serial \cup {NoSerial}
Nic == [mac : Mac, is_primary : BOOLEAN]
Asset == [serial : AnySerial, nics : SUBSET Nic]

(* A request has read the row's serial number; since then others may have   *)
(* written the row, or deleted it.                                          *)
Idle == [op |-> "idle"]
Request == [op : {"scan", "edit"}, of : Machine, serial : AnySerial,
            since : {"nothing", "written", "deleted"}]
Report == [system : BOOLEAN, interfaces : Interfaces \cup {<<>>}]

TypeOK ==
  /\ asset \in [Machine -> Asset]
  /\ unmanaged \subseteq Serial
  /\ req \in [Worker -> {Idle} \cup Request]
  /\ reported \in [Machine -> Report]
  /\ \A m \in Machine : reported[m].system

NewAsset == [serial |-> NoSerial, nics |-> {}]
NoReport == [system |-> TRUE, interfaces |-> <<>>]

Init ==
  /\ asset = [m \in Machine |-> NewAsset] /\ unmanaged = {}
  /\ req = [w \in Worker |-> Idle]
  /\ reported = [m \in Machine |-> NoReport]

-------------------------------------------------------------------------------
Linked(ifs) == {k \in DOMAIN ifs : ifs[k].mac # NoMac}

(* Seeded bug: primary_picked is never set. *)
_collect_network_many(ifs) ==
  [k \in Linked(ifs) |-> [mac |-> ifs[k].mac, is_primary |-> ifs[k].usable]]

(* Interfaces without a hardware address are left out; the first usable one *)
(* of the others is the primary.  The list goes by the places psutil gave.  *)
_collect_network(ifs) ==
  [k \in Linked(ifs) |->
     [mac |-> ifs[k].mac,
      is_primary |-> ifs[k].usable /\ \A j \in Linked(ifs) : j < k => ~ifs[j].usable]]

(* _collect_hardware: many sources, each "" where it has nothing.           *)
_collect_hardware == Serial \cup {NoSerial}

(* Every collector runs under _safe: one that raises yields {}.  What it    *)
(* raises inside of a collector's own try is lost, and shows as a value     *)
(* that is not there; nothing reads the line in errors.                     *)
collect_all(failing, serial, ifs) ==
  [system |-> "system" \notin failing,
   serial |-> IF "hardware" \in failing THEN NoSerial ELSE serial,
   nics |-> IF "network" \in failing THEN <<>> ELSE _collect_network(ifs)]

-------------------------------------------------------------------------------
(* model_validate: of the sections only system has fields without default.  *)
Valid(p) == p.system

(* Seeded bug: no seen_macs. *)
nics_to_create_all(p) == p.nics

(* The NICs by their place in the payload, the first of each MAC.           *)
nics_to_create(p) ==
  [k \in {i \in DOMAIN p.nics :
            \A j \in DOMAIN p.nics : j < i => p.nics[j].mac # p.nics[i].mac} |-> p.nics[k]]

(* Seeded bug: the serial number is overwritten like the os columns. *)
_apply_to_asset_blank(read, p) ==
  LET rows == nics_to_create(p)
  IN  [serial |-> p.serial, nics |-> {rows[k] : k \in DOMAIN rows}]

_apply_to_asset(read, p) ==
  LET rows == nics_to_create(p)
  IN  [serial |-> IF p.serial # NoSerial THEN p.serial ELSE read,
       nics |-> {rows[k] : k \in DOMAIN rows}]

(* uniq_asset_mac and uniq_asset_serial_when_present; "own" is the machine  *)
(* whose row gets the serial number, {} for a new row.                      *)
uniq_asset_mac(p) ==
  LET rows == nics_to_create(p)
  IN  \A j, k \in DOMAIN rows : rows[j].mac = rows[k].mac => j = k
uniq_asset_serial(own, s) ==
  s # NoSerial => s \notin unmanaged /\ \A n \in Machine \ own : asset[n].serial # s

-------------------------------------------------------------------------------
Busy(w) == req[w].op # "idle"

Begin(w, op, m) ==
  /\ ~Busy(w)
  /\ req' = [req EXCEPT ![w] = [op |-> op, of |-> m, serial |-> asset[m].serial, since |-> "nothing"]]
  /\ UNCHANGED <<asset, unmanaged, reported>>

(* What has become of m's row is news to the others that have read it. *)
Told(v, m, news) ==
  IF Busy(v) /\ req[v].of = m /\ req[v].since # "deleted"
  THEN [op |-> req[v].op, of |-> m, serial |-> req[v].serial, since |-> news]
  ELSE req[v]
Finish(w) == req' = [req EXCEPT ![w] = Idle]
Commit(w) == req' = [v \in Worker |-> IF v = w THEN Idle ELSE Told(v, req[w].of, "written")]

(* A scan is uploaded: its agent is authenticated, and read with its asset. *)
scan(w, m) == Begin(w, "scan", m)

(* Without its agent the session cannot be stored. *)
Accepts(w, p) ==
  /\ req[w].since # "deleted"
  /\ Valid(p)
  /\ uniq_asset_mac(p)
  /\ uniq_asset_serial({req[w].of}, _apply_to_asset(req[w].serial, p).serial)

(* Seeded bug: a payload that fails the schema is applied all the same. *)
ingest_scan_unchecked(w, p) ==
  /\ req[w].since # "deleted"
  /\ asset' = [asset EXCEPT ![req[w].of] = _apply_to_asset(req[w].serial, p)]

(* ingest_scan, once it is accepted. *)
ingest_scan(w, p) ==
  /\ Accepts(w, p)
  /\ asset' = [asset EXCEPT ![req[w].of] = _apply_to_asset(req[w].serial, p)]

do_full_scan(w, failing, serial, ifs) ==
  /\ req[w].op = "scan"
  /\ LET p == collect_all(failing, serial, ifs)
     IN  /\ ingest_scan(w, p)
         /\ reported' = [reported EXCEPT ![req[w].of] = [system |-> p.system, interfaces |-> ifs]]
  /\ Commit(w)
  /\ UNCHANGED unmanaged

(* A PATCH; the serial number is read-only in it, and saved as it was read. *)
partial_update(w, m) == Begin(w, "edit", m)

save_edit(w) ==
  /\ req[w].op = "edit" /\ req[w].since # "deleted"
  /\ uniq_asset_serial({req[w].of}, req[w].serial)
  /\ asset' = [asset EXCEPT ![req[w].of].serial = req[w].serial]
  /\ Commit(w)
  /\ UNCHANGED <<unmanaged, reported>>

(* Where the row is gone, save() inserts it again: an asset without agent.  *)
insert_edit(w) ==
  /\ req[w].op = "edit" /\ req[w].since = "deleted"
  /\ uniq_asset_serial({}, req[w].serial)
  /\ unmanaged' = unmanaged \cup ({req[w].serial} \ {NoSerial})
  /\ Finish(w)
  /\ UNCHANGED <<asset, reported>>

(* Nothing is written: the payload or a serial number is refused, the agent *)
(* is gone, the scan_id is stored already, the worker is lost.              *)
fails(w) ==
  /\ Busy(w)
  /\ Finish(w)
  /\ UNCHANGED <<asset, unmanaged, reported>>

(* The asset is deleted, with all that belongs to it.  Its agent, answered  *)
(* 401, enrolls and gets a new one.                                         *)
destroy(m) ==
  /\ asset' = [asset EXCEPT ![m] = NewAsset]
  /\ reported' = [reported EXCEPT ![m] = NoReport]
  /\ req' = [v \in Worker |-> Told(v, m, "deleted")]
  /\ UNCHANGED unmanaged

destroy_unmanaged(s) ==
  /\ s \in unmanaged
  /\ unmanaged' = unmanaged \ {s}
  /\ UNCHANGED <<asset, req, reported>>

Next ==
  \/ \E w \in Worker :
       \/ \E m \in Machine : scan(w, m) \/ partial_update(w, m)
       \/ save_edit(w) \/ insert_edit(w) \/ fails(w)
       \/ \E failing \in SUBSET Section, serial \in _collect_hardware, ifs \in Interfaces :
            do_full_scan(w, failing, serial, ifs)
  \/ \E m \in Machine : destroy(m)
  \/ \E s \in Serial : destroy_unmanaged(s)

Spec == Init /\ [][Next]_vars

-------------------------------------------------------------------------------
(* Whatever fails, whatever interfaces share a MAC and however stale the    *)
(* row it read, a scan that knows its system is accepted -- unless another  *)
(* row has the serial number it found, or read, or its asset is deleted.    *)
HealthyScansAccepted ==
  \A w \in Worker, failing \in SUBSET (Section \ {"system"}), ifs \in Interfaces,
     serial \in _collect_hardware :
    LET known == IF "hardware" \in failing \/ serial = NoSerial THEN req[w].serial ELSE serial
    IN  /\ req[w].op = "scan" /\ req[w].since # "deleted"
        /\ uniq_asset_serial({req[w].of}, known)
        => Accepts(w, collect_all(failing, serial, ifs))

(* No scan with a failed or poorer hardware collector takes away a serial   *)
(* number that an earlier one found: it is lost with the asset, or to a     *)
(* request that read the row before another one wrote it.                   *)
SerialSticks ==
  [][\A m \in Machine : asset[m].serial # NoSerial /\ asset'[m].serial = NoSerial
       => \/ destroy(m)
          \/ \E w \in Worker : /\ Busy(w) /\ req'[w] = Idle
                                /\ req[w].of = m /\ req[w].since = "written"]_vars

(* At most one NIC is the primary, and it is one the machine was reachable  *)
(* by, also where interfaces that share its MAC were dropped.               *)
PrimaryIsReachable ==
  \A m \in Machine : \A x, y \in asset[m].nics :
    /\ x.mac = y.mac => x = y
    /\ x.is_primary /\ y.is_primary => x = y
    /\ x.is_primary =>
         LET ifs == reported[m].interfaces
         IN  \E i \in DOMAIN ifs : ifs[i].mac = x.mac /\ ifs[i].usable
===============================================================================
