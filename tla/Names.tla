-------------------------------- MODULE Names --------------------------------
(***************************************************************************)
(* Names in saguaro-core: local DNS records, split DNS and conditional     *)
(* forwarding (core/dns.go), the DNSSEC switch (core/dns.go) and the       *)
(* upstream servers (core/dnsupstream.go).  They share two lists of the    *)
(* one dnsmasq section of /etc/config/dhcp: `server` has the upstream      *)
(* servers, the forwarded domains and what somebody has put there by hand, *)
(* `address` the split domains and hand-made entries.  So every handler    *)
(* has to tell its own entries from the others', with what it has noted in *)
(* the settings.                                                           *)
(*                                                                         *)
(* An entry is a pair of a domain and an address; an upstream server has   *)
(* no domain.  backupConfig, which SafeMode models, can only fail here.    *)
(***************************************************************************)
EXTENDS Calls

CONSTANTS
  Domain,      \* domains of split DNS and of forwarding
  Address,     \* internal addresses: of hosts and of DNS servers
  Record,      \* rows of dns_records, with a name and type of their own each
  Preset,      \* dnsPresets and custom choices: the set of servers of each
  Anycast,     \* the two public servers DNSSEC adds
  ByHand       \* entries of both lists that somebody made by hand

Upstream(server) == <<None, server>>
IsUpstream(entry) == entry[1] = None

RecordRow == [value : Address, on : BOOLEAN]
DomainRow == [ip : Address, on : BOOLEAN]

(* Nobody makes an entry by hand that a row of a table makes too, and      *)
(* servers there at first are upstream servers.                            *)
ASSUME NamesAssumption ==
  /\ None \notin Domain
  /\ ByHand \cap (Domain \X Address) = {}
  /\ \A e \in ByHand : ~IsUpstream(e)
  /\ \A s \in Scenario : /\ s.record \in [Record -> RecordRow \cup {None}]
                         /\ s.split \in [Domain -> DomainRow \cup {None}]
                         /\ s.forward \in [Domain -> DomainRow \cup {None}]
                         /\ s.dnssec \in BOOLEAN /\ s.added \in BOOLEAN
                         /\ \A e \in s.server : IsUpstream(e)

VARIABLES
  record,      \* table dns_records
  split,       \* table dns_split, by domain
  forward,     \* table dns_forward, by domain
  dnsFile,     \* the dnsmasq section and the record sections of dhcp
  dnsRun,      \* what dnsmasq has loaded
  noted,       \* settings dns_split_applied, dns_forward_applied (with rebind)
  dnssecAdded, \* setting dnssec_servers_added
  got,         \* local: what each request has read
  chosen,      \* servers of the last upstream choice answered (history)
  unnoted,     \* entries of each list committed, not noted yet (history)
  stale        \* does the last choice of servers lack its note? (history)

nameVars == <<record, split, forward, dnsFile, dnsRun, noted, dnssecAdded, got,
              chosen, unnoted, stale>>
tables == <<record, split, forward>>

Nothing == [records |-> {}, split |-> {}, forward |-> {}, file |-> None,
            ourSplit |-> {}, ourForward |-> {}, ask |-> None]

NamesInit(s) ==
  /\ record = s.record /\ split = s.split /\ forward = s.forward
  /\ dnsFile = [records |-> {}, address |-> ByHand,
                server |-> ByHand \cup s.server, rebind |-> {},
                noresolv |-> s.server # {}, dnssec |-> s.dnssec]
  /\ dnsRun = dnsFile
  /\ noted = [split |-> {}, forward |-> {}]
  /\ dnssecAdded = s.added
  /\ got = [r \in Request |-> Nothing]
  /\ chosen = None /\ unnoted = [split |-> {}, forward |-> {}] /\ stale = FALSE

NotFiles == UNCHANGED <<dnsFile, dnsRun, noted, dnssecAdded, chosen, unnoted,
                        stale>>
OnlyGot == UNCHANGED <<tables, dnsFile, dnsRun, noted, dnssecAdded, chosen,
                       unnoted, stale>>

Put(table, row, value) == [table EXCEPT ![row] = value]

----------------------------------------------------------------------------
(* The tables.  A name and type, or a domain, can be there once (UNIQUE).  *)

RecordCreate(r) ==
  /\ Step(r, "recordSave", "start", "done")
  /\ \E d \in Record, row \in RecordRow :
        record[d] = None /\ record' = Put(record, d, row)
  /\ UNCHANGED <<split, forward, got>> /\ NotFiles

RecordUpdate(r) ==
  /\ Step(r, "recordSave", "start", "done")
  /\ \E d \in Record, row \in RecordRow :
        record[d] # None /\ record' = Put(record, d, row)
  /\ UNCHANGED <<split, forward, got>> /\ NotFiles

RecordDelete(r) ==
  /\ Step(r, "recordDelete", "start", "done")
  /\ \E d \in Record : record[d] # None /\ record' = Put(record, d, None)
  /\ UNCHANGED <<split, forward, got>> /\ NotFiles

Rows(table) == {d \in Domain : table[d] # None}

SplitCreate(r) ==
  /\ Step(r, "splitSave", "start", "done")
  /\ \E d \in Domain \ Rows(split), row \in DomainRow :
        split' = Put(split, d, row)
  /\ UNCHANGED <<record, forward, got>> /\ NotFiles

SplitUpdate(r) ==
  /\ Step(r, "splitSave", "start", "done")
  /\ \E d \in Rows(split), row \in DomainRow :
     \E e \in (Domain \ Rows(split)) \cup {d} :
        split' = Put(Put(split, d, None), e, row)
  /\ UNCHANGED <<record, forward, got>> /\ NotFiles

SplitDelete(r) ==
  /\ Step(r, "splitDelete", "start", "done")
  /\ \E d \in Rows(split) : split' = Put(split, d, None)
  /\ UNCHANGED <<record, forward, got>> /\ NotFiles

(* A domain of split DNS is refused (domainInSplit), then the row written. *)
ForwardCheck(r) ==
  /\ Step(r, "forwardSave", "start", "write")
  /\ \E d \in Domain \ Rows(split) : got' = [got EXCEPT ![r].ask = d]
  /\ OnlyGot

ForwardCreate(r) ==
  /\ Step(r, "forwardSave", "write", "done")
  /\ got[r].ask \notin Rows(forward)
  /\ \E row \in DomainRow : forward' = Put(forward, got[r].ask, row)
  /\ UNCHANGED <<record, split, got>> /\ NotFiles

ForwardUpdate(r) ==
  /\ Step(r, "forwardSave", "write", "done")
  /\ \E d \in Rows(forward), row \in DomainRow :
        /\ got[r].ask \in (Domain \ Rows(forward)) \cup {d}
        /\ forward' = Put(Put(forward, d, None), got[r].ask, row)
  /\ UNCHANGED <<record, split, got>> /\ NotFiles

ForwardDelete(r) ==
  /\ Step(r, "forwardDelete", "start", "done")
  /\ \E d \in Rows(forward) : forward' = Put(forward, d, None)
  /\ UNCHANGED <<record, split, got>> /\ NotFiles

----------------------------------------------------------------------------
(* handleDNSApply. *)

RecordSections == {<<d, record[d].value>> :
                     d \in {d \in Record : record[d] # None /\ record[d].on}}

Entries(table) ==
  {<<d, table[d].ip>> : d \in {d \in Rows(table) : table[d].on}}

ApplyReadRecords(r) ==
  /\ Step(r, "namesApply", "start", "file")
  /\ got' = [got EXCEPT ![r].records = RecordSections]
  /\ OnlyGot

ReadFile(r, k, l, m) ==
  /\ Step(r, k, l, m)
  /\ got' = [got EXCEPT ![r].file = dnsFile]
  /\ OnlyGot

(* Mutant: rows that are turned off are read too. *)
ApplyReadSplitAll(r) ==
  /\ Step(r, "namesApply", "split", "forward")
  /\ got' = [got EXCEPT ![r].split = {<<d, split[d].ip>> : d \in Rows(split)},
                        ![r].ourSplit = noted.split]
  /\ OnlyGot

(* The enabled rows, and what the last apply noted as its own. *)
ApplyReadSplit(r) ==
  /\ Step(r, "namesApply", "split", "forward")
  /\ got' = [got EXCEPT ![r].split = Entries(split),
                        ![r].ourSplit = noted.split]
  /\ OnlyGot

ApplyReadForward(r) ==
  /\ Step(r, "namesApply", "forward", "batch")
  /\ got' = [got EXCEPT ![r].forward = Entries(forward),
                        ![r].ourForward = noted.forward]
  /\ OnlyGot

(* Mutant: nobody else's entries are kept. *)
RebuiltOwn(now, seen, ours, want) ==
  (IF seen = {} THEN now ELSE {}) \cup want

(* A list, `now` by now, is deleted where there was one, and made anew of  *)
(* the entries seen that are not its own and of those wanted.              *)
Rebuilt(now, seen, ours, want) ==
  (IF seen = {} THEN now ELSE {}) \cup (seen \ (ours \cup want)) \cup want

Domains(entries) == {e[1] : e \in entries}

ApplyBatch(r) ==
  LET g == got[r]
      ids == Domains(g.file.records \cup g.records)
  IN  /\ Step(r, "namesApply", "batch", "noteSplit")
      /\ dnsFile' = [dnsFile EXCEPT
           !.records = {s \in @ : s[1] \notin ids} \cup g.records,
           !.address = Rebuilt(@, g.file.address, g.ourSplit, g.split),
           !.server = Rebuilt(@, g.file.server, g.ourForward, g.forward),
           !.rebind = Rebuilt(@, g.file.rebind, Domains(g.ourForward),
                              Domains(g.forward))]
      /\ unnoted' = [split |-> unnoted.split \cup g.split,
                      forward |-> unnoted.forward \cup g.forward]
      /\ UNCHANGED <<tables, dnsRun, noted, dnssecAdded, got, chosen, stale>>

(* The settings, and then the restart.  The error of setSetting is passed  *)
(* over.                                                                   *)
ApplyNoteSplit(r) ==
  /\ Step(r, "namesApply", "noteSplit", "noteForward")
  /\ \/ /\ noted' = [noted EXCEPT !.split = got[r].split]
        /\ unnoted' = [unnoted EXCEPT !.split = @ \ got[r].split]
     \/ MayFail /\ UNCHANGED <<noted, unnoted>>
  /\ UNCHANGED <<tables, dnsFile, dnsRun, dnssecAdded, got, chosen, stale>>

ApplyNoteForward(r) ==
  /\ Step(r, "namesApply", "noteForward", "restart")
  /\ \/ /\ noted' = [noted EXCEPT !.forward = got[r].forward]
        /\ unnoted' = [unnoted EXCEPT !.forward = @ \ got[r].forward]
     \/ MayFail /\ UNCHANGED <<noted, unnoted>>
  /\ UNCHANGED <<tables, dnsFile, dnsRun, dnssecAdded, got, chosen, stale>>

RestartDnsmasq(r, k) ==
  /\ Step(r, k, "restart", "done")
  /\ dnsRun' = dnsFile
  /\ UNCHANGED <<tables, dnsFile, noted, dnssecAdded, got, unnoted, stale>>

----------------------------------------------------------------------------
(* handleDNSSECSet: without upstream servers of one's own two public ones  *)
(* come with it, which is noted before the batch.                          *)

Upstreams(file) == {e \in file.server : IsUpstream(e)}
AnycastEntries == {Upstream(s) : s \in Anycast}

DnssecOnNote(r) ==
  /\ Step(r, "dnssecOn", "note", "batch")
  /\ dnssecAdded' \in IF Upstreams(got[r].file) # {} THEN {dnssecAdded}
                      ELSE {TRUE} \cup (IF MayFail THEN {dnssecAdded} ELSE {})
  /\ UNCHANGED <<tables, dnsFile, dnsRun, noted, got, chosen, unnoted, stale>>

DnssecOnBatch(r) ==
  /\ Step(r, "dnssecOn", "batch", "restart")
  /\ dnsFile' = IF Upstreams(got[r].file) # {}
                  THEN [dnsFile EXCEPT !.dnssec = TRUE]
                  ELSE [dnsFile EXCEPT !.dnssec = TRUE, !.noresolv = TRUE,
                                       !.server = @ \cup AnycastEntries]
  /\ UNCHANGED <<tables, dnsRun, noted, dnssecAdded, got, chosen, unnoted,
                 stale>>

DnssecOffNote(r) ==
  /\ Step(r, "dnssecOff", "note", "batch")
  /\ got' = [got EXCEPT ![r].ask = dnssecAdded]
  /\ dnssecAdded' \in {FALSE} \cup (IF MayFail THEN {dnssecAdded} ELSE {})
  /\ UNCHANGED <<tables, dnsFile, dnsRun, noted, chosen, unnoted, stale>>

DnssecOffBatch(r) ==
  /\ Step(r, "dnssecOff", "batch", "restart")
  /\ dnsFile' =
       [dnsFile EXCEPT
          !.dnssec = @ /\ ~got[r].file.dnssec,
          !.server = IF got[r].ask THEN @ \ AnycastEntries ELSE @,
          !.noresolv = @ /\ ~(got[r].ask /\ got[r].file.noresolv)]
  /\ UNCHANGED <<tables, dnsRun, noted, dnssecAdded, got, chosen, unnoted,
                 stale>>

----------------------------------------------------------------------------
(* handleDNSUpstreamSet: the choice replaces the upstream servers and      *)
(* keeps the entries of domains.  With servers chosen, noresolv keeps      *)
(* those of the provider out.                                              *)
UpstreamBatch(r) ==
  /\ Step(r, "upstream", "batch", "note")
  /\ \E p \in Preset :
        /\ dnsFile' = [dnsFile EXCEPT
             !.server = (IF got[r].file.server = {} THEN @ ELSE {})
                          \cup (got[r].file.server \ Upstreams(got[r].file))
                          \cup {Upstream(s) : s \in p},
             !.noresolv = IF p # {} THEN TRUE
                                    ELSE @ /\ ~got[r].file.noresolv]
        /\ got' = [got EXCEPT ![r].ask = p]
  /\ chosen' = None
  /\ UNCHANGED <<tables, dnsRun, noted, dnssecAdded, unnoted, stale>>

(* Mutant: DNSSEC goes on taking the servers for its own. *)
UpstreamKeepsNote(r) ==
  /\ Step(r, "upstream", "note", "restart")
  /\ OnlyGot /\ UNCHANGED got

(* From here on DNSSEC must not take the servers for its own.  An error of *)
(* setSetting is passed over; where the setting says so still, it does.    *)
UpstreamNote(r) ==
  /\ Step(r, "upstream", "note", "restart")
  /\ \/ dnssecAdded' = FALSE /\ stale' = FALSE
     \/ MayFail /\ stale' = dnssecAdded /\ UNCHANGED dnssecAdded
  /\ UNCHANGED <<tables, dnsFile, dnsRun, noted, got, chosen, unnoted>>

----------------------------------------------------------------------------
NamesStep(r) ==
  \/ RecordCreate(r) \/ RecordUpdate(r) \/ RecordDelete(r)
  \/ SplitCreate(r) \/ SplitUpdate(r) \/ SplitDelete(r)
  \/ ForwardCheck(r) \/ ForwardCreate(r) \/ ForwardUpdate(r) \/ ForwardDelete(r)
  \/ ApplyReadRecords(r) \/ ReadFile(r, "namesApply", "file", "split")
  \/ ApplyReadSplit(r) \/ ApplyReadForward(r) \/ ApplyBatch(r)
  \/ ApplyNoteSplit(r) \/ ApplyNoteForward(r)
  \/ ReadFile(r, "dnssecOn", "start", "note") \/ DnssecOnNote(r)
  \/ DnssecOnBatch(r)
  \/ ReadFile(r, "dnssecOff", "start", "note") \/ DnssecOffNote(r)
  \/ DnssecOffBatch(r)
  \/ ReadFile(r, "upstream", "start", "batch") \/ UpstreamBatch(r)
  \/ UpstreamNote(r)
  \/ /\ \E k \in {"namesApply", "dnssecOn", "dnssecOff"} : RestartDnsmasq(r, k)
     /\ UNCHANGED chosen
  \/ RestartDnsmasq(r, "upstream") /\ chosen' = got[r].ask

NamesType ==
  /\ record \in [Record -> RecordRow \cup {None}]
  /\ split \in [Domain -> DomainRow \cup {None}]
  /\ forward \in [Domain -> DomainRow \cup {None}]
  /\ \A file \in {dnsFile, dnsRun} :
        /\ file.rebind \subseteq Domain
        /\ {file.noresolv, file.dnssec, dnssecAdded} \subseteq BOOLEAN
        /\ \A e \in file.address : ~IsUpstream(e)
  /\ chosen \in Preset \cup {None} /\ stale \in BOOLEAN
=============================================================================
