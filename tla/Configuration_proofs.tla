------------------------ MODULE Configuration_proofs ------------------------
(***************************************************************************)
(* Proofs about Configuration: what was made by hand stays in the lists of *)
(* dnsmasq (ByHandStays), servers somebody has chosen stay chosen          *)
(* (ChoiceStays), an apply of the names is in force (NamesInForce), the    *)
(* sites are served (SitesAreServed) and port 80 has one owner             *)
(* (PortHasOneOwner), each script does what it was asked (DoesAsAsked),    *)
(* keeps to the copies of D-011 (CopiedFirst), and whatever VLAN there is  *)
(* can be deleted (VlanCanGo).                                             *)
(***************************************************************************)
EXTENDS Configuration, TLAPS

(* Requests. *)

(* Where a handler may be. *)
Label == {"new", "start", "done", "failed", "script", "file", "split",
          "forward", "batch", "noteSplit", "noteForward", "restart", "note",
          "write", "stop", "acme", "load", "store", "renew", "wipe", "link",
          "sync", "syncCommit", "syncReload", "ports", "portsCommit", "portsReload"}

(* A request is alone if no other was ever under way with it. *)
CallsInv ==
  /\ kind \in [Request -> Kind \cup {None}] /\ at \in [Request -> Label]
  /\ alone \subseteq Request
  /\ \A r \in alone : /\ Began(r)
                      /\ Active(r) => \A q \in Request \ {r} : ~Active(q)

(* Request r goes on, and nothing else happens to requests. *)
Goes(r) ==
  /\ Active(r) /\ UNCHANGED <<kind, alone, crashes>>
  /\ \E m \in Label \ {"new", "start"} : at' = [at EXCEPT ![r] = m]

(* A step of a handler from one label to another.                          *)
LEMMA StepGoes ==
  ASSUME NEW r \in Request, NEW k, NEW l \in Label \ {"new", "done", "failed"},
         NEW m \in Label \ {"new", "start"}, Step(r, k, l, m)
  PROVE  Goes(r)
  BY DEF Step, Goes, Active, Over

(* The handlers of the names go from label to label.                       *)
LEMMA NamesGoes ==
  ASSUME NEW r \in Request, NamesStep(r)
  PROVE  Goes(r)
  <1> USE StepGoes DEF Label
  <1>1. CASE RecordCreate(r) \/ RecordUpdate(r) \/ RecordDelete(r)
    BY <1>1 DEF RecordCreate, RecordUpdate, RecordDelete
  <1>2. CASE SplitCreate(r) \/ SplitUpdate(r) \/ SplitDelete(r)
    BY <1>2 DEF SplitCreate, SplitUpdate, SplitDelete
  <1>3. CASE ForwardCheck(r) \/ ForwardCreate(r) \/ ForwardUpdate(r) \/ ForwardDelete(r)
    BY <1>3 DEF ForwardCheck, ForwardCreate, ForwardUpdate, ForwardDelete
  <1>4. CASE ApplyReadRecords(r) \/ ReadFile(r, "namesApply", "file", "split")
    BY <1>4 DEF ApplyReadRecords, ReadFile
  <1>5. CASE ApplyReadSplit(r) \/ ApplyReadForward(r) \/ ApplyBatch(r)
    BY <1>5 DEF ApplyReadSplit, ApplyReadForward, ApplyBatch
  <1>6. CASE ApplyNoteSplit(r) \/ ApplyNoteForward(r)
    BY <1>6 DEF ApplyNoteSplit, ApplyNoteForward
  <1>7. CASE ReadFile(r, "dnssecOn", "start", "note") \/ DnssecOnNote(r) \/ DnssecOnBatch(r)
    BY <1>7 DEF ReadFile, DnssecOnNote, DnssecOnBatch
  <1>8. CASE ReadFile(r, "dnssecOff", "start", "note") \/ DnssecOffNote(r) \/ DnssecOffBatch(r)
    BY <1>8 DEF ReadFile, DnssecOffNote, DnssecOffBatch
  <1>9. CASE ReadFile(r, "upstream", "start", "batch") \/ UpstreamBatch(r) \/ UpstreamNote(r)
    BY <1>9 DEF ReadFile, UpstreamBatch, UpstreamNote
  <1>10. CASE \E k \in {"namesApply", "dnssecOn", "dnssecOff", "upstream"} : RestartDnsmasq(r, k)
    BY <1>10 DEF RestartDnsmasq
  <1> QED
    BY <1>1, <1>2, <1>3, <1>4, <1>5, <1>6, <1>7, <1>8, <1>9, <1>10 DEF NamesStep

(* So do those of the sites and of the certificate.                        *)
LEMMA ProxyGoes ==
  ASSUME NEW r \in Request, ProxyStep(r)
  PROVE  Goes(r)
  <1> USE StepGoes DEF Label
  <1>1. CASE SiteCreate(r) \/ SiteUpdate(r) \/ SiteDelete(r)
    BY <1>1 DEF SiteCreate, SiteUpdate, SiteDelete
  <1>2. CASE InstallPackage(r) \/ InstallStop(r) \/ InstallWrite(r)
    BY <1>2 DEF InstallPackage, InstallStop, InstallWrite
  <1>3. After(r, "acme") \in Label \ {"new", "start"}
        /\ After(r, "sync") \in Label \ {"new", "start"}
    BY DEF After
  <1>4. CASE WriteAcme(r)
    BY <1>3, <1>4 DEF WriteAcme, Steps
  <1>5. CASE SyncRead(r) \/ SyncCommit(r) \/ SyncReload(r)
    BY <1>3, <1>5 DEF SyncRead, SyncCommit, SyncReload, Steps
  <1>6. CASE LoadCert(r) \/ StoreCert(r)
    BY <1>6 DEF LoadCert, StoreCert, Steps
  <1>7. CASE ApplyRead(r) \/ ApplyReady(r) \/ ApplyWrite(r) \/ ApplyStop(r) \/ ApplyRestart(r)
    BY <1>7 DEF ApplyRead, ApplyReady, ApplyWrite, ApplyStop, ApplyRestart
  <1>8. CASE PortsRead(r) \/ PortsCommit(r) \/ PortsReload(r)
    BY <1>8 DEF PortsRead, PortsCommit, PortsReload
  <1>9. CASE GuiSetting(r) \/ GuiIssue(r) \/ AcmeIssueRead(r) \/ Renew(r) \/ AcmeIssueLinked(r)
    BY <1>9 DEF GuiSetting, GuiIssue, AcmeIssueRead, Renew, AcmeIssueLinked, Steps
  <1>10. CASE PassOver(r)
    BY <1>3, <1>10 DEF PassOver, PassedOver, Steps
  <1>11. CASE WipeLinks(r) \/ LinkCert(r)
    BY <1>11 DEF WipeLinks, LinkCert, Steps
  <1> QED
    BY <1>1, <1>2, <1>4, <1>5, <1>6, <1>7, <1>8, <1>9, <1>10, <1>11 DEF ProxyStep

(* And those of the services.                                              *)
LEMMA ServicesGoes ==
  ASSUME NEW r \in Request, ServicesStep(r)
  PROVE  Goes(r)
  <1>1. CASE Arrive(r)
    BY <1>1, StepGoes DEF Arrive, Label
  <1>2. ASSUME NEW n, Goto(r, n) PROVE Goes(r)
    BY <1>2, StepGoes DEF Goto, Label
  <1>3. CASE CopyFile(r) \/ CommitPart(r) \/ ErasePart(r) \/ LoadService(r)
    BY <1>2, <1>3 DEF CopyFile, CommitPart, ErasePart, LoadService, Onward
  <1>4. CASE WriteSetting(r) \/ ReadCrontab(r) \/ WriteCrontab(r) \/ PassStep(r)
    BY <1>2, <1>4 DEF WriteSetting, ReadCrontab, WriteCrontab, PassStep, Onward
  <1>5. CASE Leave(r)
    BY <1>2, <1>5 DEF Leave, Onward
  <1> QED
    BY <1>1, <1>3, <1>4, <1>5 DEF ServicesStep

(* A request that fails goes on to its end.                                *)
LEMMA FailGoes ==
  ASSUME NEW r \in Request, Fails(r)
  PROVE  Goes(r)
  BY DEF Fails, Fail, Goes, Label

(* At first nobody is under way. *)
LEMMA CallsInvInit == Init => CallsInv
  BY CallsAssumption DEF Init, CallsInit, CallsInv, Label

(* Requests come one at a time if they have so far: nobody becomes alone   *)
(* again.                                                                  *)
LEMMA GoesCalls ==
  ASSUME CallsInv, NEW r \in Request, Goes(r)
  PROVE  CallsInv' /\ (InTurn' => InTurn)
  <1>1. PICK m \in Label \ {"new", "start"} : at' = [at EXCEPT ![r] = m]
    BY DEF Goes
  <1>2. at' \in [Request -> Label] /\ \A q \in Request \ {r} : at'[q] = at[q]
    BY <1>1 DEF CallsInv
  <1>3. at'[r] # "new" /\ Active(r) /\ alone' = alone /\ kind' = kind
    BY <1>1 DEF Goes, CallsInv
  <1> QED
    BY <1>2, <1>3 DEF CallsInv, InTurn, Began, Active, Over

(* A request arrives. *)
LEMMA BeginCalls ==
  ASSUME CallsInv, NEW r \in Request, Begin(r)
  PROVE  CallsInv' /\ (InTurn' => InTurn)
  <1>1. at' \in [Request -> Label] /\ at'[r] = "start"
        /\ \A q \in Request \ {r} : at'[q] = at[q]
    BY DEF Begin, CallsInv, Label
  <1>2. at[r] = "new" /\ kind' = kind
    BY DEF Begin
  <1>3. CASE \E q \in Request : Active(q)
    BY <1>1, <1>2, <1>3 DEF Begin, CallsInv, InTurn, Began, Active, Over
  <1>4. CASE ~\E q \in Request : Active(q)
    BY <1>1, <1>2, <1>4 DEF Begin, CallsInv, InTurn, Began, Active, Over
  <1> QED
    BY <1>3, <1>4

(* Whoever is alone stays so until it ends. *)
LEMMA CallsInvStep ==
  ASSUME CallsInv, [Next]_vars
  PROVE  CallsInv' /\ (InTurn' => InTurn)
  <1>1. CASE UNCHANGED callVars
    BY <1>1 DEF callVars, CallsInv, InTurn, Began, Active
  <1>2. CASE \E r \in Request : Goes(r)
    BY <1>2, GoesCalls
  <1>3. CASE \E r \in Request : Begin(r)
    BY <1>3, BeginCalls
  <1>4. CASE Crash
    BY <1>4 DEF Crash, CallsInv, InTurn, Began, Active, Over, Label
  <1> QED
    BY <1>1, <1>2, <1>3, <1>4, NamesGoes, ProxyGoes, ServicesGoes, FailGoes
       DEF Next, vars

(* Who goes on when requests come one at a time is the only one there.     *)
LEMMA OnlyOne ==
  ASSUME CallsInv, InTurn, NEW r \in Request, Active(r), NEW q \in Request \ {r}
  PROVE  ~Active(q)
  BY DEF CallsInv, InTurn, Active, Began

(* A request becomes alone only when it arrives.                           *)
LEMMA BecomesAlone ==
  ASSUME CallsInv, [Next]_vars, NEW q \in alone'
  PROVE  q \in alone \/ at'[q] = "start"
  <1>1. ASSUME NEW r \in Request, Begin(r) PROVE q \in alone \/ at'[q] = "start"
    BY <1>1 DEF Begin, CallsInv
  <1>2. ASSUME NEW r \in Request, Goes(r) PROVE q \in alone
    BY <1>2 DEF Goes
  <1>3. CASE UNCHANGED alone
    BY <1>3
  <1> QED
    BY <1>1, <1>2, <1>3, NamesGoes, ProxyGoes, ServicesGoes, FailGoes
       DEF Next, vars, callVars, Crash

----------------------------------------------------------------------------
(* The names.                                                              *)

(* The entries of a list of dnsmasq, and what is read of it. *)
Pair == Domain \X Address

ServerEntry ==
  ByHand \cup Pair \cup AnycastEntries \cup {Upstream(a) : a \in UNION Preset}
  \cup UNION {s.server : s \in Scenario}

DnsType ==
  [records : SUBSET (Record \X Address), address : SUBSET (ByHand \cup Pair),
   server : SUBSET ServerEntry, rebind : SUBSET Domain, noresolv : BOOLEAN,
   dnssec : BOOLEAN]

GotType ==
  [records : SUBSET (Record \X Address), split : SUBSET Pair,
   forward : SUBSET Pair, file : DnsType \cup {None}, ourSplit : SUBSET Pair,
   ourForward : SUBSET Pair, ask : BOOLEAN \cup Preset \cup Domain \cup {None}]

(* A request that has read the section of dnsmasq and not written it yet.  *)
HasRead(r) ==
  \/ kind[r] = "namesApply" /\ at[r] \in {"split", "forward", "batch"}
  \/ kind[r] \in {"dnssecOn", "dnssecOff"} /\ at[r] \in {"note", "batch"}
  \/ kind[r] = "upstream" /\ at[r] = "batch"

(* What a request has in hand fits its handler. *)
HandFits(r) ==
  /\ HasRead(r) => got[r].file \in DnsType
  /\ kind[r] = "upstream" /\ at[r] \in {"note", "restart"} =>
       got[r].ask \in Preset \cup {None}
  /\ kind[r] = "dnssecOff" /\ at[r] = "batch" => got[r].ask \in BOOLEAN

(* What the settings note of each list, and the tables of the names. *)
NotedType == [split : SUBSET Pair, forward : SUBSET Pair]

Tables ==
  /\ record \in [Record -> RecordRow \cup {None}]
  /\ split \in [Domain -> DomainRow \cup {None}]
  /\ forward \in [Domain -> DomainRow \cup {None}]

(* The types of the names, and what each request has in hand. *)
NamesInv ==
  /\ Tables
  /\ dnsFile \in DnsType /\ dnsRun \in DnsType
  /\ noted \in NotedType
  /\ dnssecAdded \in BOOLEAN
  /\ got \in [Request -> GotType]
  /\ chosen \in Preset \cup {None} /\ unnoted \in NotedType
  /\ \A r \in Request : HandFits(r)

(* The labels of the handlers of the names.                                *)
NamesLabel == {"file", "split", "forward", "batch", "note", "noteSplit",
               "noteForward", "restart"}

(* Those of handleDNSApply.                                                *)
ApplyLabel == {"new", "start", "file", "split", "forward", "batch", "noteSplit",
               "noteForward", "restart", "done", "failed"}

(* No other handler of the names has got anywhere.                         *)
Aside(q) ==
  /\ at'[q] \in NamesLabel /\ kind[q] # "proxyApply" => at'[q] = at[q]
  /\ kind[q] = "namesApply" /\ at[q] \in ApplyLabel =>
       at'[q] \in {at[q], "start", "failed"}

(* ByHandStays, with what those who are about to write have read.          *)
ByHandInv ==
  /\ ByHandStays
  /\ \A r \in Request : HasRead(r) =>
        ByHand \subseteq got[r].file.address \cap got[r].file.server

(* The handlers of the sites and of the services have labels of their own. *)
LEMMA ProxyAside ==
  ASSUME CallsInv, NEW r \in Request, ProxyStep(r)
  PROVE  Aside(r)
  <1> USE DEF Label, Step, Aside, NamesLabel, ApplyLabel, CallsInv
  <1>1. CASE SiteCreate(r) \/ SiteUpdate(r) \/ SiteDelete(r)
    BY <1>1 DEF SiteCreate, SiteUpdate, SiteDelete
  <1>2. CASE InstallPackage(r) \/ InstallStop(r) \/ InstallWrite(r)
    BY <1>2 DEF InstallPackage, InstallStop, InstallWrite
  <1>3. After(r, "acme") \notin NamesLabel /\ After(r, "sync") \notin NamesLabel
    BY DEF After
  <1>4. CASE WriteAcme(r)
    BY <1>3, <1>4 DEF WriteAcme, Steps
  <1>5. CASE SyncRead(r) \/ SyncCommit(r) \/ SyncReload(r)
    BY <1>3, <1>5 DEF SyncRead, SyncCommit, SyncReload, Steps
  <1>6. CASE LoadCert(r) \/ StoreCert(r)
    BY <1>6 DEF LoadCert, StoreCert, Steps
  <1>7. CASE ApplyRead(r) \/ ApplyReady(r) \/ ApplyWrite(r) \/ ApplyStop(r) \/ ApplyRestart(r)
    BY <1>7 DEF ApplyRead, ApplyReady, ApplyWrite, ApplyStop, ApplyRestart
  <1>8. CASE PortsRead(r) \/ PortsCommit(r) \/ PortsReload(r)
    BY <1>8 DEF PortsRead, PortsCommit, PortsReload
  <1>9. CASE GuiSetting(r) \/ GuiIssue(r) \/ AcmeIssueRead(r) \/ Renew(r) \/ AcmeIssueLinked(r)
    BY <1>9 DEF GuiSetting, GuiIssue, AcmeIssueRead, Renew, AcmeIssueLinked, Steps
  <1>10. CASE PassOver(r)
    BY <1>3, <1>10 DEF PassOver, PassedOver, Steps
  <1>11. CASE WipeLinks(r) \/ LinkCert(r)
    BY <1>11 DEF WipeLinks, LinkCert, Steps
  <1> QED
    BY <1>1, <1>2, <1>4, <1>5, <1>6, <1>7, <1>8, <1>9, <1>10, <1>11 DEF ProxyStep

(* So do those of the services. *)
LEMMA ServicesAside ==
  ASSUME CallsInv, NEW r \in Request, ServicesStep(r)
  PROVE  Aside(r)
  <1> USE DEF Label, Step, Aside, NamesLabel, ApplyLabel, CallsInv
  <1>1. CASE Arrive(r)
    BY <1>1 DEF Arrive, Scripted
  <1>2. ASSUME NEW n, Goto(r, n) PROVE Aside(r)
    BY <1>2 DEF Goto
  <1>3. CASE CopyFile(r) \/ CommitPart(r) \/ ErasePart(r) \/ LoadService(r)
    BY <1>2, <1>3 DEF CopyFile, CommitPart, ErasePart, LoadService, Onward
  <1>4. CASE WriteSetting(r) \/ ReadCrontab(r) \/ WriteCrontab(r) \/ PassStep(r)
    BY <1>2, <1>4 DEF WriteSetting, ReadCrontab, WriteCrontab, PassStep, Onward
  <1>5. CASE Leave(r)
    BY <1>2, <1>5 DEF Leave, Onward
  <1> QED
    BY <1>1, <1>3, <1>4, <1>5 DEF ServicesStep

(* Whatever is no step of a handler of the names leaves those where they   *)
(* are, or ends them.                                                      *)
LEMMA NamesOrAside ==
  ASSUME CallsInv, [Next]_vars
  PROVE  \/ \E r \in Request : NamesStep(r) /\ Goes(r)
         \/ /\ \A q \in Request : Aside(q)
            /\ kind' = kind
            /\ UNCHANGED <<tables, dnsFile, noted, dnssecAdded, got, chosen, unnoted, stale>>
            /\ dnsRun' \in {dnsRun, dnsFile}
  <1>1. CASE UNCHANGED vars
    BY <1>1 DEF vars, callVars, nameVars, tables, Aside
  <1>2. ASSUME NEW r \in Request, Goes(r), Aside(r)
        PROVE  kind' = kind /\ \A q \in Request : Aside(q)
    BY <1>2 DEF Goes, Aside, CallsInv
  <1>3. ASSUME NEW r \in Request, NamesStep(r)
        PROVE  \E q \in Request : NamesStep(q) /\ Goes(q)
    BY <1>3, NamesGoes
  <1>4. ASSUME NEW r \in Request, ProxyStep(r), UNCHANGED <<nameVars, serviceVars>>
        PROVE  /\ kind' = kind /\ \A q \in Request : Aside(q)
               /\ UNCHANGED nameVars
    BY <1>2, <1>4, ProxyGoes, ProxyAside
  <1>5. ASSUME NEW r \in Request, ServicesStep(r), UNCHANGED <<nameVars, proxyVars>>
        PROVE  /\ kind' = kind /\ \A q \in Request : Aside(q)
               /\ UNCHANGED nameVars
    BY <1>2, <1>5, ServicesGoes, ServicesAside
  <1>6. ASSUME NEW r \in Request, Begin(r)
        PROVE  kind' = kind /\ \A q \in Request : Aside(q)
    BY <1>6 DEF Begin, CallsInv, Aside, NamesLabel, ApplyLabel
  <1>7. ASSUME NEW r \in Request, Fails(r)
        PROVE  kind' = kind /\ \A q \in Request : Aside(q)
    BY <1>7 DEF Fails, Fail, CallsInv, Aside, NamesLabel, ApplyLabel
  <1>8. ASSUME Crash
        PROVE  kind' = kind /\ \A q \in Request : Aside(q)
    BY <1>8 DEF Crash, CallsInv, Aside, NamesLabel, ApplyLabel
  <1>9. ASSUME UNCHANGED callVars
        PROVE  kind' = kind /\ \A q \in Request : Aside(q)
    BY <1>9 DEF callVars, Aside
  <1> QED
    BY <1>1, <1>3, <1>4, <1>5, <1>6, <1>7, <1>8, <1>9
       DEF Next, vars, nameVars, tables

(* Nothing is read at first. *)
LEMMA NamesInvInit == Init => NamesInv
  <1> SUFFICES ASSUME NEW s \in Scenario, CallsInit(s), NamesInit(s) PROVE NamesInv
    BY DEF Init
  <1>1. Tables
    BY NamesAssumption DEF NamesInit, Tables
  <1>2. s.server \subseteq ServerEntry
    BY DEF ServerEntry
  <1>3. dnsFile \in DnsType /\ dnsRun \in DnsType
    BY <1>2, NamesAssumption DEF NamesInit, DnsType, ServerEntry
  <1>4. noted \in NotedType
        /\ dnssecAdded \in BOOLEAN /\ chosen = None /\ unnoted \in NotedType
    BY NamesAssumption DEF NamesInit, NotedType
  <1>5. got \in [Request -> GotType]
    BY DEF NamesInit, Nothing, GotType
  <1>6. \A r \in Request : HandFits(r)
    BY DEF CallsInit, HandFits, HasRead
  <1> QED
    BY <1>1, <1>3, <1>4, <1>5, <1>6 DEF NamesInv

(* A step of another handler.                                              *)
LEMMA AsideNamesInv ==
  ASSUME CallsInv, NamesInv, \A q \in Request : Aside(q), kind' = kind,
         UNCHANGED <<tables, dnsFile, noted, dnssecAdded, got, chosen, unnoted>>,
         dnsRun' \in {dnsRun, dnsFile}
  PROVE  NamesInv'
  <1>1. ASSUME NEW q \in Request PROVE HandFits(q)'
    BY <1>1 DEF NamesInv, HandFits, HasRead, Aside, NamesLabel
  <1>2. Tables'
    BY DEF NamesInv, Tables, tables
  <1> QED
    BY <1>1, <1>2 DEF NamesInv

(* Whoever does not take the step keeps what he has in hand.               *)
LEMMA OthersFit ==
  ASSUME CallsInv, NamesInv, NEW r \in Request, Goes(r),
         NEW q \in Request \ {r}, got'[q] = got[q]
  PROVE  HandFits(q)'
  <1>1. at'[q] = at[q] /\ kind'[q] = kind[q]
    BY DEF Goes, CallsInv
  <1> QED
    BY <1>1 DEF NamesInv, HandFits, HasRead

(* The tables. *)
LEMMA TableSteps ==
  ASSUME CallsInv, NamesInv, NEW r \in Request, Goes(r),
         \/ RecordCreate(r) \/ RecordUpdate(r) \/ RecordDelete(r)
         \/ SplitCreate(r) \/ SplitUpdate(r) \/ SplitDelete(r)
         \/ ForwardCreate(r) \/ ForwardUpdate(r) \/ ForwardDelete(r)
  PROVE  /\ Tables'
         /\ UNCHANGED <<got, dnsFile, dnsRun, noted, dnssecAdded, chosen, unnoted, stale>>
         /\ kind[r] \in {"recordSave", "recordDelete", "splitSave", "splitDelete",
                         "forwardSave", "forwardDelete"}
  <1> USE DEF Tables, NamesInv, NotFiles, Step, Put
  <1>1. CASE RecordCreate(r) \/ RecordUpdate(r) \/ RecordDelete(r)
    BY <1>1 DEF RecordCreate, RecordUpdate, RecordDelete
  <1>2. CASE SplitCreate(r) \/ SplitDelete(r)
    BY <1>2 DEF SplitCreate, SplitDelete, Rows
  <1>3. CASE SplitUpdate(r)
    <2>1. PICK d \in Rows(split), row \in DomainRow : \E e \in (Domain \ Rows(split)) \cup {d} :
             split' = Put(Put(split, d, None), e, row)
      BY <1>3 DEF SplitUpdate
    <2>2. Put(split, d, None) \in [Domain -> DomainRow \cup {None}]
      OBVIOUS
    <2>3. split' \in [Domain -> DomainRow \cup {None}]
      BY <2>1, <2>2
    <2> QED
      BY <1>3, <2>3 DEF SplitUpdate
  <1>4. CASE ForwardCreate(r) \/ ForwardDelete(r)
    BY <1>4 DEF ForwardCreate, ForwardDelete, Rows
  <1>5. CASE ForwardUpdate(r)
    <2>1. PICK d \in Rows(forward), row \in DomainRow :
             forward' = Put(Put(forward, d, None), got[r].ask, row)
      BY <1>5 DEF ForwardUpdate
    <2>2. Put(forward, d, None) \in [Domain -> DomainRow \cup {None}]
      OBVIOUS
    <2>3. forward' \in [Domain -> DomainRow \cup {None}]
      BY <2>1, <2>2
    <2> QED
      BY <1>5, <2>3 DEF ForwardUpdate
  <1> QED
    BY <1>1, <1>2, <1>3, <1>4, <1>5

(* The rows of the tables as entries of the lists. *)
LEMMA RowTypes ==
  ASSUME Tables
  PROVE  /\ RecordSections \subseteq Record \X Address
         /\ Entries(split) \subseteq Pair /\ Entries(forward) \subseteq Pair
  BY DEF Tables, RecordSections, Entries, Rows, Pair, RecordRow, DomainRow

(* The domains of entries are domains. *)
LEMMA DomainsType ==
  ASSUME NEW S, S \subseteq Pair
  PROVE  Domains(S) \subseteq Domain
  BY DEF Domains, Pair

(* What is read, into the hands of r. *)
LEMMA ReadSteps ==
  ASSUME CallsInv, NamesInv, NEW r \in Request, Goes(r),
         \/ ForwardCheck(r) \/ ApplyReadRecords(r)
         \/ \E k, l, m : ReadFile(r, k, l, m)
         \/ ApplyReadSplit(r) \/ ApplyReadForward(r)
  PROVE  /\ got' \in [Request -> GotType] /\ OnlyGot
         /\ \A q \in Request \ {r} : got'[q] = got[q]
         /\ got'[r].file \in {got[r].file, dnsFile}
  <1> DEFINE g == got[r]
  <1>0. g \in GotType /\ got \in [Request -> GotType] /\ Tables /\ dnsFile \in DnsType
        /\ noted.split \subseteq Pair /\ noted.forward \subseteq Pair
    BY DEF NamesInv, NotedType
  <1>1. CASE ForwardCheck(r)
    <2>1. PICK d \in Domain : got' = [got EXCEPT ![r].ask = d]
      BY <1>1 DEF ForwardCheck
    <2>2. [g EXCEPT !.ask = d] \in GotType /\ [g EXCEPT !.ask = d].file = g.file
      BY <1>0 DEF GotType
    <2> QED
      BY <1>0, <1>1, <2>1, <2>2 DEF ForwardCheck
  <1>2. CASE ApplyReadRecords(r)
    <2>1. [g EXCEPT !.records = RecordSections] \in GotType
          /\ [g EXCEPT !.records = RecordSections].file = g.file
      BY <1>0, RowTypes DEF GotType
    <2> QED
      BY <1>0, <1>2, <2>1 DEF ApplyReadRecords
  <1>3. CASE \E k, l, m : ReadFile(r, k, l, m)
    <2>1. [g EXCEPT !.file = dnsFile] \in GotType
          /\ [g EXCEPT !.file = dnsFile].file = dnsFile
      BY <1>0 DEF GotType
    <2> QED
      BY <1>0, <1>3, <2>1 DEF ReadFile
  <1>4. CASE ApplyReadSplit(r)
    <2>1. [g EXCEPT !.split = Entries(split), !.ourSplit = noted.split] \in GotType
          /\ [g EXCEPT !.split = Entries(split), !.ourSplit = noted.split].file = g.file
      BY <1>0, RowTypes DEF GotType
    <2> QED
      BY <1>0, <1>4, <2>1 DEF ApplyReadSplit
  <1>5. CASE ApplyReadForward(r)
    <2>1. [g EXCEPT !.forward = Entries(forward), !.ourForward = noted.forward] \in GotType
          /\ [g EXCEPT !.forward = Entries(forward), !.ourForward = noted.forward].file = g.file
      BY <1>0, RowTypes DEF GotType
    <2> QED
      BY <1>0, <1>5, <2>1 DEF ApplyReadForward
  <1> QED
    BY <1>1, <1>2, <1>3, <1>4, <1>5

(* An apply writes the section of dnsmasq. *)
LEMMA BatchType ==
  ASSUME CallsInv, NamesInv, NEW r \in Request, Goes(r), ApplyBatch(r)
  PROVE  /\ dnsFile' \in DnsType /\ unnoted' \in NotedType
         /\ HasRead(r) /\ got[r] \in GotType /\ got[r].file \in DnsType
         /\ dnsFile'.address = Rebuilt(dnsFile.address, got[r].file.address,
                                       got[r].ourSplit, got[r].split)
         /\ dnsFile'.server = Rebuilt(dnsFile.server, got[r].file.server,
                                      got[r].ourForward, got[r].forward)
         /\ dnsFile'.rebind = Rebuilt(dnsFile.rebind, got[r].file.rebind,
                                      Domains(got[r].ourForward),
                                      Domains(got[r].forward))
         /\ dnsFile'.noresolv = dnsFile.noresolv
  <1> DEFINE g == got[r]
             recs == {s \in dnsFile.records : s[1] \notin Domains(g.file.records \cup g.records)}
                       \cup g.records
             addr == Rebuilt(dnsFile.address, g.file.address, g.ourSplit, g.split)
             serv == Rebuilt(dnsFile.server, g.file.server, g.ourForward, g.forward)
             rebi == Rebuilt(dnsFile.rebind, g.file.rebind,
                             Domains(g.ourForward), Domains(g.forward))
  <1>1. HasRead(r) /\ g \in GotType /\ g.file \in DnsType
    BY DEF ApplyBatch, Step, HasRead, NamesInv, HandFits
  <1>2. dnsFile \in DnsType /\ unnoted \in NotedType
    BY DEF NamesInv
  <1>3. dnsFile' = [dnsFile EXCEPT !.records = recs, !.address = addr,
                                   !.server = serv, !.rebind = rebi]
    BY DEF ApplyBatch
  <1>4. recs \in SUBSET (Record \X Address)
    BY <1>1, <1>2 DEF DnsType, GotType
  <1>5. addr \in SUBSET (ByHand \cup Pair)
    <2>1. /\ dnsFile.address \subseteq ByHand \cup Pair
          /\ g.file.address \subseteq ByHand \cup Pair /\ g.split \subseteq ByHand \cup Pair
      BY <1>1, <1>2 DEF DnsType, GotType
    <2> QED
      BY <2>1 DEF Rebuilt
  <1>6. serv \in SUBSET ServerEntry
    <2>1. /\ dnsFile.server \subseteq ServerEntry
          /\ g.file.server \subseteq ServerEntry /\ g.forward \subseteq ServerEntry
      BY <1>1, <1>2 DEF DnsType, GotType, ServerEntry
    <2> QED
      BY <2>1 DEF Rebuilt
  <1>7. rebi \in SUBSET Domain
    <2>1. /\ dnsFile.rebind \subseteq Domain /\ g.file.rebind \subseteq Domain
          /\ Domains(g.forward) \subseteq Domain
      BY <1>1, <1>2, DomainsType DEF DnsType, GotType
    <2> QED
      BY <2>1 DEF Rebuilt
  <1>8. unnoted' \in NotedType
    BY <1>1, <1>2 DEF ApplyBatch, GotType, NotedType
  <1> HIDE DEF recs, addr, serv, rebi, g
  <1>9. /\ dnsFile' \in DnsType /\ dnsFile'.address = addr
        /\ dnsFile'.server = serv /\ dnsFile'.rebind = rebi
        /\ dnsFile'.noresolv = dnsFile.noresolv
    BY <1>2, <1>3, <1>4, <1>5, <1>6, <1>7 DEF DnsType
  <1> QED
    BY <1>1, <1>8, <1>9 DEF addr, serv, rebi, g

(* Notes of what was committed. *)
LEMMA NoteType ==
  ASSUME CallsInv, NamesInv, NEW r \in Request, Goes(r),
         ApplyNoteSplit(r) \/ ApplyNoteForward(r)
  PROVE  /\ noted' \in NotedType
         /\ unnoted' \in NotedType
         /\ UNCHANGED <<tables, dnsFile, dnsRun, dnssecAdded, got, chosen>>
  BY DEF ApplyNoteSplit, ApplyNoteForward, NamesInv, GotType, NotedType

(* DNSSEC on and off.                                                      *)
LEMMA DnssecType ==
  ASSUME CallsInv, NamesInv, NEW r \in Request, Goes(r),
         \/ DnssecOnNote(r) \/ DnssecOnBatch(r)
         \/ DnssecOffNote(r) \/ DnssecOffBatch(r)
  PROVE  /\ dnsFile' \in DnsType /\ dnssecAdded' \in BOOLEAN
         /\ got' \in [Request -> GotType]
         /\ \A q \in Request \ {r} : got'[q] = got[q]
         /\ HandFits(r)' /\ HasRead(r) /\ got[r].file \in DnsType
         /\ got'[r].file = got[r].file
         /\ UNCHANGED <<tables, dnsRun, noted, chosen, unnoted>>
         /\ dnsFile'.address = dnsFile.address /\ dnsFile'.rebind = dnsFile.rebind
         /\ dnsFile.server \ AnycastEntries \subseteq dnsFile'.server
         /\ dnsFile'.server \subseteq dnsFile.server \cup AnycastEntries
  <1> DEFINE g == got[r]
  <1>1. g \in GotType /\ got \in [Request -> GotType] /\ dnsFile \in DnsType
        /\ dnssecAdded \in BOOLEAN /\ HandFits(r)
    BY DEF NamesInv
  <1>2. AnycastEntries \subseteq ServerEntry
    BY DEF ServerEntry
  <1>3. CASE DnssecOnNote(r)
    <2>1. HasRead(r) /\ HasRead(r)' /\ kind'[r] = "dnssecOn"
      BY <1>3 DEF DnssecOnNote, Step, HasRead, CallsInv, Label
    <2>2. dnssecAdded' \in BOOLEAN
      BY <1>1, <1>3 DEF DnssecOnNote
    <2> QED
      BY <1>1, <1>3, <2>1, <2>2 DEF DnssecOnNote, HandFits
  <1>4. CASE DnssecOnBatch(r)
    <2>1. HasRead(r) /\ ~HasRead(r)' /\ kind'[r] = "dnssecOn"
      BY <1>4 DEF DnssecOnBatch, Step, HasRead, CallsInv, Label
    <2>2. dnsFile' = [dnsFile EXCEPT !.dnssec = TRUE]
          \/ dnsFile' = [dnsFile EXCEPT !.dnssec = TRUE, !.noresolv = TRUE,
                                        !.server = @ \cup AnycastEntries]
      BY <1>4 DEF DnssecOnBatch
    <2>3. /\ dnsFile' \in DnsType
          /\ dnsFile'.address = dnsFile.address /\ dnsFile'.rebind = dnsFile.rebind
          /\ dnsFile.server \ AnycastEntries \subseteq dnsFile'.server
          /\ dnsFile'.server \subseteq dnsFile.server \cup AnycastEntries
      BY <1>1, <1>2, <2>2 DEF DnsType
    <2> QED
      BY <1>1, <1>4, <2>1, <2>3 DEF DnssecOnBatch, HandFits
  <1>5. CASE DnssecOffNote(r)
    <2>1. HasRead(r) /\ HasRead(r)' /\ kind'[r] = "dnssecOff"
      BY <1>5 DEF DnssecOffNote, Step, HasRead, CallsInv, Label
    <2>2. dnssecAdded' \in BOOLEAN
      BY <1>1, <1>5 DEF DnssecOffNote
    <2>3. [g EXCEPT !.ask = dnssecAdded] \in GotType
          /\ [g EXCEPT !.ask = dnssecAdded].file = g.file
          /\ [g EXCEPT !.ask = dnssecAdded].ask \in BOOLEAN
      BY <1>1 DEF GotType
    <2>4. got' = [got EXCEPT ![r] = [g EXCEPT !.ask = dnssecAdded]]
      BY <1>5 DEF DnssecOffNote
    <2> HIDE DEF g
    <2>5. /\ got' \in [Request -> GotType] /\ got'[r].file = g.file
          /\ got'[r].ask \in BOOLEAN
          /\ \A q \in Request \ {r} : got'[q] = got[q]
      BY <1>1, <2>3, <2>4
    <2> QED
      BY <1>1, <1>5, <2>1, <2>2, <2>5 DEF DnssecOffNote, HandFits, g
  <1>6. CASE DnssecOffBatch(r)
    <2>1. HasRead(r) /\ ~HasRead(r)' /\ kind'[r] = "dnssecOff" /\ at'[r] = "restart"
      BY <1>6 DEF DnssecOffBatch, Step, HasRead, CallsInv, Label
    <2>2. g.file \in DnsType /\ g.ask \in BOOLEAN
      BY <1>1, <1>6, <2>1 DEF HandFits, DnssecOffBatch, Step
    <2> DEFINE sec == dnsFile.dnssec /\ ~g.file.dnssec
               ser == IF g.ask THEN dnsFile.server \ AnycastEntries ELSE dnsFile.server
               nor == dnsFile.noresolv /\ ~(g.ask /\ g.file.noresolv)
    <2>3. dnsFile' = [dnsFile EXCEPT !.dnssec = sec, !.server = ser, !.noresolv = nor]
      BY <1>6 DEF DnssecOffBatch
    <2>4. sec \in BOOLEAN /\ nor \in BOOLEAN
      OBVIOUS
    <2>5. /\ ser \subseteq dnsFile.server /\ dnsFile.server \ AnycastEntries \subseteq ser
          /\ ser \subseteq ServerEntry
      BY <1>1 DEF DnsType
    <2> HIDE DEF sec, ser, nor
    <2>6. /\ dnsFile' \in DnsType /\ dnsFile'.address = dnsFile.address
          /\ dnsFile'.rebind = dnsFile.rebind
          /\ dnsFile'.server = ser
      BY <1>1, <2>3, <2>4, <2>5 DEF DnsType
    <2> QED
      BY <1>1, <1>6, <2>1, <2>2, <2>5, <2>6 DEF DnssecOffBatch, HandFits
  <1> QED
    BY <1>3, <1>4, <1>5, <1>6

(* The upstream servers.                                                   *)
LEMMA UpstreamType ==
  ASSUME CallsInv, NamesInv, NEW r \in Request, Goes(r), UpstreamBatch(r)
  PROVE  \E p \in Preset :
         /\ dnsFile' \in DnsType
         /\ got' \in [Request -> GotType] /\ got'[r].ask = p
         /\ \A q \in Request \ {r} : got'[q] = got[q]
         /\ HandFits(r)' /\ ~HasRead(r)' /\ HasRead(r) /\ got[r].file \in DnsType
         /\ UNCHANGED <<tables, dnsRun, noted, dnssecAdded, unnoted>>
         /\ chosen' = None
         /\ dnsFile'.address = dnsFile.address /\ dnsFile'.rebind = dnsFile.rebind
         /\ dnsFile'.server = (IF got[r].file.server = {} THEN dnsFile.server ELSE {})
                                \cup (got[r].file.server \ Upstreams(got[r].file))
                                \cup {Upstream(s) : s \in p}
         /\ p # {} => dnsFile'.noresolv
  <1> DEFINE g == got[r]
  <1>1. g \in GotType /\ got \in [Request -> GotType] /\ dnsFile \in DnsType
        /\ HandFits(r)
    BY DEF NamesInv
  <1>2. HasRead(r) /\ ~HasRead(r)' /\ kind'[r] = "upstream" /\ at'[r] = "note"
    BY DEF UpstreamBatch, Step, HasRead, CallsInv, Label
  <1>3. g.file \in DnsType
    BY <1>1, <1>2 DEF HandFits
  <1> DEFINE ser(p) == (IF g.file.server = {} THEN dnsFile.server ELSE {})
                          \cup (g.file.server \ Upstreams(g.file))
                          \cup {Upstream(s) : s \in p}
             nor(p) == IF p # {} THEN TRUE ELSE dnsFile.noresolv /\ ~g.file.noresolv
  <1>4. PICK p \in Preset :
          /\ dnsFile' = [dnsFile EXCEPT !.server = ser(p), !.noresolv = nor(p)]
          /\ got' = [got EXCEPT ![r].ask = p]
    BY DEF UpstreamBatch
  <1>5. ser(p) \subseteq ServerEntry
    BY <1>1, <1>3 DEF ServerEntry, DnsType
  <1>6. nor(p) \in BOOLEAN /\ (p # {} => nor(p))
    OBVIOUS
  <1>7. [g EXCEPT !.ask = p] \in GotType /\ [g EXCEPT !.ask = p].ask = p
    BY <1>1 DEF GotType
  <1> DEFINE s1 == ser(p)
             n1 == nor(p)
             g1 == [g EXCEPT !.ask = p]
  <1>8. /\ dnsFile' = [dnsFile EXCEPT !.server = s1, !.noresolv = n1]
        /\ got' = [got EXCEPT ![r] = g1]
        /\ s1 \subseteq ServerEntry /\ n1 \in BOOLEAN /\ (p # {} => n1)
        /\ g1 \in GotType /\ g1.ask = p
    BY <1>4, <1>5, <1>6, <1>7
  <1> HIDE DEF s1, n1, g1
  <1>9. /\ dnsFile' \in DnsType /\ dnsFile'.address = dnsFile.address
        /\ dnsFile'.rebind = dnsFile.rebind
        /\ dnsFile'.server = s1 /\ (p # {} => dnsFile'.noresolv)
    BY <1>1, <1>8 DEF DnsType
  <1>10. /\ got' \in [Request -> GotType] /\ got'[r].ask = p
         /\ \A q \in Request \ {r} : got'[q] = got[q]
    BY <1>1, <1>8
  <1>11. HandFits(r)'
    BY <1>2, <1>10 DEF HandFits
  <1> QED
    BY <1>2, <1>3, <1>9, <1>10, <1>11 DEF UpstreamBatch, s1

(* The note of the upstream servers. *)
LEMMA UpstreamNoteType ==
  ASSUME CallsInv, NamesInv, NEW r \in Request, Goes(r), UpstreamNote(r)
  PROVE  /\ dnssecAdded' \in BOOLEAN
         /\ dnssecAdded' = FALSE \/ (stale' = dnssecAdded /\ UNCHANGED dnssecAdded)
         /\ HandFits(r)' /\ ~HasRead(r)'
         /\ UNCHANGED <<tables, dnsFile, dnsRun, noted, got, chosen, unnoted>>
  <1>1. kind[r] = "upstream" /\ at[r] = "note" /\ kind'[r] = "upstream"
        /\ at'[r] = "restart" /\ ~HasRead(r)'
    BY DEF UpstreamNote, Step, HasRead, CallsInv, Label
  <1>2. got[r].ask \in Preset \cup {None} /\ dnssecAdded \in BOOLEAN
    BY <1>1 DEF NamesInv, HandFits
  <1> QED
    BY <1>1, <1>2 DEF UpstreamNote, HandFits

(* The restart. *)
LEMMA RestartType ==
  ASSUME CallsInv, NamesInv, NEW r \in Request, Goes(r),
         NEW k \in {"namesApply", "dnssecOn", "dnssecOff", "upstream"},
         RestartDnsmasq(r, k),
         IF k = "upstream" THEN chosen' = got[r].ask ELSE UNCHANGED chosen
  PROVE  /\ HandFits(r)' /\ ~HasRead(r)'
         /\ dnsRun' = dnsFile /\ chosen' \in Preset \cup {None}
         /\ UNCHANGED <<tables, dnsFile, noted, dnssecAdded, got, unnoted>>
  <1>1. kind[r] = k /\ at[r] = "restart" /\ kind'[r] = k /\ at'[r] = "done"
    BY DEF RestartDnsmasq, Step, CallsInv, Label
  <1>2. chosen' \in Preset \cup {None}
    BY <1>1 DEF NamesInv, HandFits
  <1> QED
    BY <1>1, <1>2 DEF RestartDnsmasq, HandFits, HasRead

(* A step that ends a handler, or leaves its hands as they were. *)
LEMMA KeptFits ==
  ASSUME CallsInv, NamesInv, NEW r \in Request, Goes(r),
         \/ ~HasRead(r)' /\ kind[r] \notin {"upstream", "dnssecOff"}
         \/ /\ \/ ApplyReadRecords(r) \/ ForwardCheck(r)
               \/ ApplyReadSplit(r) \/ ApplyReadForward(r)
            /\ got'[r].file \in {got[r].file, dnsFile}
  PROVE  HandFits(r)'
  <1>1. kind' = kind
    BY DEF Goes
  <1>2. CASE ~HasRead(r)' /\ kind[r] \notin {"upstream", "dnssecOff"}
    BY <1>1, <1>2 DEF HandFits
  <1>3. ASSUME ApplyReadRecords(r) \/ ForwardCheck(r)
        PROVE  HandFits(r)'
    BY <1>1, <1>3 DEF ApplyReadRecords, ForwardCheck, Step, CallsInv, Label, HandFits, HasRead
  <1>4. ASSUME ApplyReadSplit(r) \/ ApplyReadForward(r),
               got'[r].file \in {got[r].file, dnsFile}
        PROVE  HandFits(r)'
    <2>1. HasRead(r) /\ kind[r] = "namesApply"
      BY <1>4 DEF ApplyReadSplit, ApplyReadForward, Step, HasRead
    <2>2. got[r].file \in DnsType /\ dnsFile \in DnsType
      BY <2>1 DEF NamesInv, HandFits
    <2> QED
      BY <1>1, <1>4, <2>1, <2>2 DEF HandFits
  <1> QED
    BY <1>2, <1>3, <1>4

(* What the tables, the section and the settings are made of stays so.     *)
LEMMA NamesStepType ==
  ASSUME CallsInv, NamesInv, NEW r \in Request, Goes(r), NamesStep(r)
  PROVE  NamesInv'
  <1> SUFFICES /\ Tables'
               /\ dnsFile' \in DnsType /\ dnsRun' \in DnsType
               /\ noted' \in NotedType
               /\ dnssecAdded' \in BOOLEAN /\ got' \in [Request -> GotType]
               /\ chosen' \in Preset \cup {None} /\ unnoted' \in NotedType
               /\ \A q \in Request \ {r} : got'[q] = got[q]
               /\ HandFits(r)'
    BY OthersFit DEF NamesInv
  <1>0. /\ Tables /\ dnsFile \in DnsType /\ dnsRun \in DnsType
        /\ noted \in NotedType
        /\ dnssecAdded \in BOOLEAN /\ got \in [Request -> GotType]
        /\ chosen \in Preset \cup {None} /\ unnoted \in NotedType
        /\ HandFits(r)
    BY DEF NamesInv
  <1>1. UNCHANGED tables => Tables'
    BY <1>0 DEF tables, Tables
  <1>2. CASE \/ RecordCreate(r) \/ RecordUpdate(r) \/ RecordDelete(r)
             \/ SplitCreate(r) \/ SplitUpdate(r) \/ SplitDelete(r)
             \/ ForwardCreate(r) \/ ForwardUpdate(r) \/ ForwardDelete(r)
    <2>1. /\ Tables' /\ UNCHANGED <<got, dnsFile, dnsRun, noted, dnssecAdded, chosen, unnoted>>
          /\ kind[r] \in {"recordSave", "recordDelete", "splitSave", "splitDelete",
                          "forwardSave", "forwardDelete"}
      BY <1>2, TableSteps
    <2>2. HandFits(r)'
      BY <2>1 DEF HandFits, HasRead, Goes
    <2> QED
      BY <1>0, <2>1, <2>2
  <1>3. CASE ForwardCheck(r) \/ ApplyReadRecords(r) \/ ApplyReadSplit(r) \/ ApplyReadForward(r)
    <2>1. /\ got' \in [Request -> GotType] /\ OnlyGot
          /\ \A q \in Request \ {r} : got'[q] = got[q]
          /\ got'[r].file \in {got[r].file, dnsFile}
      BY <1>3, ReadSteps
    <2>2. HandFits(r)'
      BY <1>3, <2>1, KeptFits
    <2> QED
      BY <1>0, <1>1, <2>1, <2>2 DEF OnlyGot
  <1>4. CASE \E k, l, m : ReadFile(r, k, l, m) /\ k \in {"namesApply", "dnssecOn", "dnssecOff", "upstream"}
                          /\ m \in {"split", "note", "batch"}
                          /\ (k = "upstream" => m = "batch")
                          /\ (k = "dnssecOff" => m = "note")
    <2>1. /\ got' \in [Request -> GotType] /\ OnlyGot
          /\ \A q \in Request \ {r} : got'[q] = got[q]
      BY <1>4, ReadSteps
    <2>2. got'[r].file = dnsFile
      BY <1>0, <1>4 DEF ReadFile, GotType
    <2>3. HandFits(r)'
      BY <1>0, <1>4, <2>2 DEF ReadFile, Step, CallsInv, HandFits
    <2> QED
      BY <1>0, <1>1, <2>1, <2>3 DEF OnlyGot
  <1>5. CASE ApplyBatch(r)
    <2>1. dnsFile' \in DnsType /\ unnoted' \in NotedType
      BY <1>5, BatchType
    <2>2. HandFits(r)'
      BY <1>5 DEF ApplyBatch, Step, CallsInv, HandFits, HasRead, Label
    <2> QED
      BY <1>0, <1>1, <1>5, <2>1, <2>2 DEF ApplyBatch
  <1>6. CASE ApplyNoteSplit(r) \/ ApplyNoteForward(r)
    <2>1. /\ noted' \in NotedType
          /\ unnoted' \in NotedType
          /\ UNCHANGED <<tables, dnsFile, dnsRun, dnssecAdded, got, chosen>>
      BY <1>6, NoteType
    <2>2. HandFits(r)'
      BY <1>6 DEF ApplyNoteSplit, ApplyNoteForward, Step, CallsInv, HandFits, HasRead, Label
    <2> QED
      BY <1>0, <1>1, <2>1, <2>2
  <1>7. CASE \/ DnssecOnNote(r) \/ DnssecOnBatch(r)
             \/ DnssecOffNote(r) \/ DnssecOffBatch(r)
    <2>1. /\ dnsFile' \in DnsType /\ dnssecAdded' \in BOOLEAN
          /\ got' \in [Request -> GotType]
          /\ \A q \in Request \ {r} : got'[q] = got[q]
          /\ HandFits(r)'
          /\ UNCHANGED <<tables, dnsRun, noted, chosen, unnoted>>
      BY <1>7, DnssecType
    <2> QED
      BY <1>0, <1>1, <2>1
  <1>8. CASE UpstreamBatch(r)
    <2>1. /\ dnsFile' \in DnsType
          /\ got' \in [Request -> GotType]
          /\ \A q \in Request \ {r} : got'[q] = got[q]
          /\ HandFits(r)'
          /\ UNCHANGED <<tables, dnsRun, noted, dnssecAdded, unnoted>>
          /\ chosen' = None
      BY <1>8, UpstreamType
    <2> QED
      BY <1>0, <1>1, <2>1
  <1>9. CASE UpstreamNote(r)
    <2>1. /\ dnssecAdded' \in BOOLEAN /\ HandFits(r)'
          /\ UNCHANGED <<tables, dnsFile, dnsRun, noted, got, chosen, unnoted>>
      BY <1>9, UpstreamNoteType
    <2> QED
      BY <1>0, <1>1, <2>1
  <1>10. CASE \/ (\E k \in {"namesApply", "dnssecOn", "dnssecOff"} : RestartDnsmasq(r, k))
                 /\ UNCHANGED chosen
              \/ RestartDnsmasq(r, "upstream") /\ chosen' = got[r].ask
    <2>1. /\ HandFits(r)'
          /\ dnsRun' = dnsFile /\ chosen' \in Preset \cup {None}
          /\ UNCHANGED <<tables, dnsFile, noted, dnssecAdded, got, unnoted>>
      BY <1>10, RestartType
    <2> QED
      BY <1>0, <1>1, <2>1
  <1> QED
    BY <1>2, <1>3, <1>4, <1>5, <1>6, <1>7, <1>8, <1>9, <1>10 DEF NamesStep

(* NamesInv is inductive. *)
LEMMA NamesInvStep ==
  ASSUME CallsInv, NamesInv, [Next]_vars
  PROVE  NamesInv'
  BY NamesOrAside, AsideNamesInv, NamesStepType

(* What somebody made by hand is neither a row's nor an upstream server.   *)
LEMMA ByHandApart ==
  ASSUME NEW e \in ByHand
  PROVE  e \notin Pair /\ e \notin AnycastEntries /\ \A f : e \notin Upstreams(f)
  BY NamesAssumption DEF Pair, AnycastEntries, Upstreams, Upstream, IsUpstream

(* What was made by hand is there at first. *)
LEMMA ByHandInvInit == Init => ByHandInv
  BY DEF Init, CallsInit, NamesInit, ByHandInv, ByHandStays, HasRead

(* Each way to write the section keeps what was made by hand.              *)
LEMMA ByHandWritten ==
  ASSUME CallsInv, NamesInv, ByHandInv, NEW r \in Request, Goes(r), NamesStep(r)
  PROVE  ByHandStays'
  <1>0. ByHand \subseteq dnsFile.address \cap dnsFile.server
    BY DEF ByHandInv, ByHandStays
  <1>1. CASE UNCHANGED dnsFile
    BY <1>0, <1>1 DEF ByHandStays
  <1>2. CASE ApplyBatch(r)
    <2>1. /\ HasRead(r) /\ got[r] \in GotType
          /\ dnsFile'.address = Rebuilt(dnsFile.address, got[r].file.address,
                                        got[r].ourSplit, got[r].split)
          /\ dnsFile'.server = Rebuilt(dnsFile.server, got[r].file.server,
                                       got[r].ourForward, got[r].forward)
      BY <1>2, BatchType
    <2>2. ByHand \subseteq got[r].file.address /\ ByHand \subseteq got[r].file.server
      BY <2>1 DEF ByHandInv
    <2>3. ByHand \cap got[r].ourSplit = {} /\ ByHand \cap got[r].split = {}
          /\ ByHand \cap got[r].ourForward = {} /\ ByHand \cap got[r].forward = {}
      BY <2>1, ByHandApart DEF GotType
    <2> QED
      BY <2>1, <2>2, <2>3 DEF Rebuilt, ByHandStays
  <1>3. CASE DnssecOnBatch(r) \/ DnssecOffBatch(r)
    <2>1. /\ dnsFile'.address = dnsFile.address
          /\ dnsFile.server \ AnycastEntries \subseteq dnsFile'.server
      BY <1>3, DnssecType
    <2> QED
      BY <1>0, <2>1, ByHandApart DEF ByHandStays
  <1>4. CASE UpstreamBatch(r)
    <2>1. \E p \in Preset :
            /\ HasRead(r) /\ dnsFile'.address = dnsFile.address
            /\ dnsFile'.server = (IF got[r].file.server = {} THEN dnsFile.server ELSE {})
                                   \cup (got[r].file.server \ Upstreams(got[r].file))
                                   \cup {Upstream(s) : s \in p}
      BY <1>4, UpstreamType
    <2>2. got[r].file.server \ Upstreams(got[r].file) \subseteq dnsFile'.server
          /\ dnsFile'.address = dnsFile.address /\ HasRead(r)
      BY <2>1
    <2>3. ByHand \subseteq got[r].file.server
      BY <2>2 DEF ByHandInv
    <2> QED
      BY <1>0, <2>2, <2>3, ByHandApart DEF ByHandStays
  <1>5. \/ UNCHANGED dnsFile
        \/ ApplyBatch(r) \/ DnssecOnBatch(r) \/ DnssecOffBatch(r) \/ UpstreamBatch(r)
    BY DEF NamesStep, RecordCreate, RecordUpdate, RecordDelete, SplitCreate, SplitUpdate,
           SplitDelete, ForwardCheck, ForwardCreate, ForwardUpdate, ForwardDelete,
           ApplyReadRecords, ReadFile, ApplyReadSplit, ApplyReadForward, ApplyNoteSplit,
           ApplyNoteForward, DnssecOnNote, DnssecOffNote, UpstreamNote,
           RestartDnsmasq, OnlyGot, NotFiles
  <1> QED
    BY <1>1, <1>2, <1>3, <1>4, <1>5

(* What a request holds is what it has read, until it writes.              *)
LEMMA HoldsWhatItRead ==
  ASSUME CallsInv, NamesInv, NEW r \in Request, Goes(r), NamesStep(r),
         NEW q \in Request, HasRead(q)'
  PROVE  \/ q = r /\ got'[q].file = dnsFile /\ UNCHANGED dnsFile
            /\ \E k, l, m : ReadFile(r, k, l, m)
         \/ HasRead(q) /\ got'[q].file = got[q].file
  <1>0. kind' = kind /\ \A p \in Request \ {r} : at'[p] = at[p]
    BY DEF Goes, CallsInv
  <1>1. ASSUME q # r, got'[q] = got[q]
        PROVE  HasRead(q) /\ got'[q].file = got[q].file
    BY <1>0, <1>1 DEF HasRead
  <1>2. CASE \/ RecordCreate(r) \/ RecordUpdate(r) \/ RecordDelete(r)
             \/ SplitCreate(r) \/ SplitUpdate(r) \/ SplitDelete(r)
             \/ ForwardCreate(r) \/ ForwardUpdate(r) \/ ForwardDelete(r)
    <2>1. /\ got' = got
          /\ kind[r] \in {"recordSave", "recordDelete", "splitSave", "splitDelete",
                          "forwardSave", "forwardDelete"}
      BY <1>2, TableSteps
    <2>2. q # r
      BY <1>0, <2>1 DEF HasRead
    <2> QED
      BY <1>1, <2>1, <2>2
  <1>3. CASE \E k, l, m : ReadFile(r, k, l, m)
    <2>1. \A p \in Request \ {r} : got'[p] = got[p]
      BY <1>3, ReadSteps
    <2>2. got'[r].file = dnsFile /\ UNCHANGED dnsFile
      BY <1>3 DEF ReadFile, OnlyGot, NamesInv, GotType
    <2> QED
      BY <1>1, <1>3, <2>1, <2>2
  <1>4. CASE ApplyReadSplit(r) \/ ApplyReadForward(r)
    <2>1. \A p \in Request \ {r} : got'[p] = got[p]
      BY <1>4, ReadSteps
    <2>2. HasRead(r)
      BY <1>4 DEF ApplyReadSplit, ApplyReadForward, Step, HasRead
    <2>3. got'[r].file = got[r].file
      BY <1>4 DEF ApplyReadSplit, ApplyReadForward, NamesInv, GotType
    <2> QED
      BY <1>1, <2>1, <2>2, <2>3
  <1>5. CASE ForwardCheck(r) \/ ApplyReadRecords(r)
    <2>1. \A p \in Request \ {r} : got'[p] = got[p]
      BY <1>5, ReadSteps
    <2>2. ~HasRead(r)'
      BY <1>5 DEF ForwardCheck, ApplyReadRecords, Step, HasRead, CallsInv, Label
    <2> QED
      BY <1>1, <2>1, <2>2
  <1>6. CASE \/ DnssecOnNote(r) \/ DnssecOnBatch(r)
             \/ DnssecOffNote(r) \/ DnssecOffBatch(r)
    <2>1. /\ \A p \in Request \ {r} : got'[p] = got[p]
          /\ HasRead(r) /\ got'[r].file = got[r].file
      BY <1>6, DnssecType
    <2> QED
      BY <1>1, <2>1
  <1>7. CASE ApplyBatch(r) \/ ApplyNoteSplit(r) \/ ApplyNoteForward(r)
    <2>1. ~HasRead(r)' /\ got' = got
      BY <1>7 DEF ApplyBatch, ApplyNoteSplit, ApplyNoteForward, Step, HasRead, CallsInv, Label
    <2> QED
      BY <1>1, <2>1
  <1>8. CASE UpstreamBatch(r)
    <2>1. ~HasRead(r)' /\ \A p \in Request \ {r} : got'[p] = got[p]
      BY <1>8, UpstreamType
    <2> QED
      BY <1>1, <2>1
  <1>9. CASE UpstreamNote(r)
    <2>1. ~HasRead(r)' /\ \A p \in Request \ {r} : got'[p] = got[p]
      BY <1>9, UpstreamNoteType
    <2> QED
      BY <1>1, <2>1
  <1>10. CASE \/ (\E k \in {"namesApply", "dnssecOn", "dnssecOff"} : RestartDnsmasq(r, k))
                 /\ UNCHANGED chosen
              \/ RestartDnsmasq(r, "upstream") /\ chosen' = got[r].ask
    <2>1. ~HasRead(r)' /\ got' = got
      BY <1>10, RestartType
    <2> QED
      BY <1>1, <2>1
  <1> QED
    BY <1>2, <1>3, <1>4, <1>5, <1>6, <1>7, <1>8, <1>9, <1>10 DEF NamesStep

(* ByHandInv is inductive. *)
LEMMA ByHandInvStep ==
  ASSUME CallsInv, NamesInv, ByHandInv, [Next]_vars
  PROVE  ByHandInv'
  <1>1. ASSUME NEW r \in Request, NamesStep(r), Goes(r)
        PROVE  ByHandInv'
    <2>1. ByHandStays'
      BY <1>1, ByHandWritten
    <2>2. ASSUME NEW q \in Request, HasRead(q)'
          PROVE  ByHand \subseteq got'[q].file.address \cap got'[q].file.server
      BY <1>1, <2>2, HoldsWhatItRead DEF ByHandInv, ByHandStays
    <2> QED
      BY <2>1, <2>2 DEF ByHandInv
  <1>2. ASSUME \A q \in Request : Aside(q), kind' = kind, UNCHANGED <<dnsFile, got>>
        PROVE  ByHandInv'
    <2>1. ASSUME NEW q \in Request, HasRead(q)' PROVE HasRead(q)
      BY <1>2, <2>1 DEF HasRead, Aside, NamesLabel
    <2> QED
      BY <1>2, <2>1 DEF ByHandInv, ByHandStays
  <1> QED
    BY <1>1, <1>2, NamesOrAside

(* What somebody has put into the lists of dnsmasq by hand is never lost,  *)
(* whatever applies, choices of servers and DNSSEC switches overlap, fail  *)
(* or crash: each reads the lists before it writes them, keeps what is     *)
(* neither its own nor wanted, and takes nothing for its own but rows and  *)
(* upstream servers (handleDNSApply, handleDNSUpstreamSet, D-011).         *)
THEOREM ByHandAlwaysStays == Spec => []ByHandStays
  <1> DEFINE Inv == CallsInv /\ NamesInv /\ ByHandInv
  <1>1. Init => Inv
    BY CallsInvInit, NamesInvInit, ByHandInvInit
  <1>2. Inv /\ [Next]_vars => Inv'
    BY CallsInvStep, NamesInvStep, ByHandInvStep
  <1>3. Inv => ByHandStays
    BY DEF ByHandInv
  <1> HIDE DEF Inv
  <1> QED
    BY <1>1, <1>2, <1>3, PTL DEF Spec

(* The servers are those of p, and nobody else's are asked.                *)
Asks(p) ==
  Upstreams(dnsFile) = {Upstream(s) : s \in p} /\ dnsFile.noresolv

(* Servers somebody has chosen. *)
Real(p) == p \notin {None, {}}

(* How far request r has brought a choice, and what it may take for its own. *)
ChoiceFits(r) ==
  /\ HasRead(r) => got[r].file = dnsFile
  /\ kind[r] = "upstream" /\ at[r] \in {"note", "restart"} =>
       /\ chosen = None
       /\ Real(got[r].ask) =>
            Asks(got[r].ask) /\ (at[r] = "restart" /\ ~stale => ~dnssecAdded)
  /\ kind[r] = "dnssecOff" /\ at[r] = "batch" /\ Real(chosen) /\ ~stale => ~got[r].ask

(* As long as requests come one at a time, a choice whose note is not      *)
(* stale stays, and DNSSEC takes none of it for its own.                   *)
ChoiceInv ==
  InTurn => /\ Real(chosen) /\ ~stale => Asks(chosen) /\ ~dnssecAdded
            /\ \A r \in Request : ChoiceFits(r)

(* Nobody has chosen servers at first. *)
LEMMA ChoiceInvInit == Init => ChoiceInv
  <1> SUFFICES ASSUME NEW s \in Scenario, CallsInit(s), NamesInit(s) PROVE ChoiceInv
    BY DEF Init
  <1>1. \A r \in Request : ChoiceFits(r)
    BY DEF CallsInit, ChoiceFits, HasRead
  <1> QED
    BY <1>1 DEF NamesInit, ChoiceInv, Real

(* A step of another handler. *)
LEMMA AsideChoice ==
  ASSUME CallsInv, ChoiceInv, InTurn, \A q \in Request : Aside(q), kind' = kind,
         UNCHANGED <<dnsFile, dnssecAdded, got, chosen, stale>>
  PROVE  ChoiceInv'
  <1>1. ASSUME NEW q \in Request PROVE ChoiceFits(q)'
    <2>1. HasRead(q)' => HasRead(q)
      BY DEF HasRead, Aside, NamesLabel
    <2>2. /\ kind[q] = "upstream" /\ at'[q] \in {"note", "restart"} => at'[q] = at[q]
          /\ kind[q] = "dnssecOff" /\ at'[q] = "batch" => at'[q] = at[q]
      BY DEF Aside, NamesLabel
    <2> QED
      BY <2>1, <2>2 DEF ChoiceInv, ChoiceFits, Asks, Upstreams
  <1> QED
    BY <1>1 DEF ChoiceInv, Asks, Upstreams

(* A domain is no upstream server. *)
LEMMA PairApart ==
  ASSUME NEW e \in Pair
  PROVE  ~IsUpstream(e)
  BY NamesAssumption DEF Pair, IsUpstream

(* An address for every domain is an upstream server. *)
LEMMA UpstreamIs ==
  ASSUME NEW a PROVE IsUpstream(Upstream(a))
  BY DEF Upstream, IsUpstream

(* Rebuilt leaves the upstream servers as they are.                        *)
LEMMA BatchKeepsChoice ==
  ASSUME CallsInv, NamesInv, NEW r \in Request, Goes(r), ApplyBatch(r),
         got[r].file = dnsFile
  PROVE  Upstreams(dnsFile') = Upstreams(dnsFile) /\ dnsFile'.noresolv = dnsFile.noresolv
  <1>1. /\ got[r] \in GotType /\ dnsFile'.noresolv = dnsFile.noresolv
        /\ dnsFile'.server = Rebuilt(dnsFile.server, got[r].file.server,
                                     got[r].ourForward, got[r].forward)
    BY BatchType
  <1>2. got[r].ourForward \subseteq Pair /\ got[r].forward \subseteq Pair
    BY <1>1 DEF GotType
  <1>3. dnsFile'.server = (dnsFile.server \ (got[r].ourForward \cup got[r].forward))
                            \cup got[r].forward
    BY <1>1 DEF Rebuilt
  <1> QED
    BY <1>1, <1>2, <1>3, PairApart DEF Upstreams

(* The batch of a choice leaves its servers and no others.                 *)
LEMMA UpstreamAsks ==
  ASSUME CallsInv, NamesInv, NEW r \in Request, Goes(r), UpstreamBatch(r),
         got[r].file = dnsFile
  PROVE  /\ chosen' = None /\ ~HasRead(r)'
         /\ Real(got'[r].ask) =>
              /\ Upstreams(dnsFile') = {Upstream(s) : s \in got'[r].ask}
              /\ dnsFile'.noresolv
  <1>1. PICK p \in Preset :
          /\ got'[r].ask = p /\ ~HasRead(r)' /\ chosen' = None
          /\ dnsFile'.server = (IF got[r].file.server = {} THEN dnsFile.server ELSE {})
                                 \cup (got[r].file.server \ Upstreams(got[r].file))
                                 \cup {Upstream(s) : s \in p}
          /\ p # {} => dnsFile'.noresolv
    BY UpstreamType
  <1>2. dnsFile'.server = (dnsFile.server \ Upstreams(dnsFile)) \cup {Upstream(s) : s \in p}
    BY <1>1
  <1>3. Upstreams(dnsFile') = {Upstream(s) : s \in p}
    BY <1>2, UpstreamIs DEF Upstreams
  <1> QED
    BY <1>1, <1>3 DEF Real

(* A step of the only request there is.                                    *)
LEMMA ChoiceStep ==
  ASSUME CallsInv, NamesInv, ChoiceInv, InTurn, InTurn',
         NEW r \in Request, Goes(r), NamesStep(r)
  PROVE  ChoiceInv'
  <1>0. /\ kind' = kind /\ Active(r) /\ \A q \in Request \ {r} : at'[q] = at[q]
        /\ at \in [Request -> Label] /\ at' \in [Request -> Label]
    BY DEF Goes, CallsInv
  <1>1. ASSUME NEW q \in Request \ {r} PROVE ChoiceFits(q)'
    <2>1. ~Active(q)
      BY <1>0, OnlyOne
    <2>2. at'[q] \notin NamesLabel
      BY <1>0, <2>1 DEF Active, Over, NamesLabel
    <2> QED
      BY <2>2 DEF ChoiceFits, HasRead, NamesLabel
  <1>2. /\ Real(chosen) /\ ~stale => Asks(chosen) /\ ~dnssecAdded
        /\ ChoiceFits(r)
    BY DEF ChoiceInv
  <1> SUFFICES /\ Real(chosen') /\ ~stale' => Asks(chosen)' /\ ~dnssecAdded'
               /\ ChoiceFits(r)'
    BY <1>1 DEF ChoiceInv, Real
  <1>3. CASE \/ RecordCreate(r) \/ RecordUpdate(r) \/ RecordDelete(r)
             \/ SplitCreate(r) \/ SplitUpdate(r) \/ SplitDelete(r)
             \/ ForwardCreate(r) \/ ForwardUpdate(r) \/ ForwardDelete(r)
    <2>1. /\ UNCHANGED <<got, dnsFile, dnsRun, noted, dnssecAdded, chosen, unnoted, stale>>
          /\ kind[r] \in {"recordSave", "recordDelete", "splitSave", "splitDelete",
                          "forwardSave", "forwardDelete"}
      BY <1>3, TableSteps
    <2> QED
      BY <1>0, <1>2, <2>1 DEF Asks, Upstreams, ChoiceFits, HasRead
  <1>4. CASE ForwardCheck(r) \/ ApplyReadRecords(r) \/ ApplyReadSplit(r) \/ ApplyReadForward(r)
    <2>1. OnlyGot /\ kind[r] \notin {"upstream", "dnssecOff"}
      BY <1>4 DEF ForwardCheck, ApplyReadRecords, ApplyReadSplit, ApplyReadForward, Step
    <2>2. HasRead(r)' => got'[r].file = dnsFile
      BY <1>2, <1>4, HoldsWhatItRead DEF ChoiceFits
    <2> QED
      BY <1>0, <1>2, <2>1, <2>2 DEF OnlyGot, Asks, Upstreams, ChoiceFits
  <1>5. CASE \/ ReadFile(r, "namesApply", "file", "split")
             \/ ReadFile(r, "dnssecOn", "start", "note")
             \/ ReadFile(r, "dnssecOff", "start", "note")
             \/ ReadFile(r, "upstream", "start", "batch")
    <2>1. OnlyGot /\ got'[r].file = dnsFile
      BY <1>5 DEF ReadFile, NamesInv, GotType
    <2>2. /\ kind[r] = "upstream" => at'[r] = "batch"
          /\ kind[r] = "dnssecOff" => at'[r] = "note"
      BY <1>0, <1>5 DEF ReadFile, Step
    <2> QED
      BY <1>0, <1>2, <2>1, <2>2 DEF OnlyGot, Asks, Upstreams, ChoiceFits
  <1>6. CASE ApplyBatch(r)
    <2>1. HasRead(r) /\ ~HasRead(r)' /\ kind[r] = "namesApply"
      BY <1>0, <1>6 DEF ApplyBatch, Step, HasRead
    <2>2. Upstreams(dnsFile') = Upstreams(dnsFile) /\ dnsFile'.noresolv = dnsFile.noresolv
      BY <1>2, <1>6, <2>1, BatchKeepsChoice DEF ChoiceFits
    <2> QED
      BY <1>0, <1>2, <1>6, <2>1, <2>2 DEF ApplyBatch, Asks, ChoiceFits
  <1>7. CASE ApplyNoteSplit(r) \/ ApplyNoteForward(r)
    <2>1. ~HasRead(r)' /\ kind[r] = "namesApply"
          /\ UNCHANGED <<dnsFile, dnssecAdded, chosen, stale>>
      BY <1>0, <1>7 DEF ApplyNoteSplit, ApplyNoteForward, Step, HasRead
    <2> QED
      BY <1>0, <1>2, <2>1 DEF Asks, Upstreams, ChoiceFits
  <1>8. ASSUME Real(chosen), ~stale PROVE Upstreams(dnsFile) # {}
    BY <1>2, <1>8 DEF Asks, Real
  <1>9. CASE DnssecOnNote(r)
    <2>1. HasRead(r) /\ kind[r] = "dnssecOn"
      BY <1>9 DEF DnssecOnNote, Step, HasRead
    <2>2. UNCHANGED <<dnsFile, got, chosen, stale>>
          /\ (Upstreams(got[r].file) # {} => dnssecAdded' = dnssecAdded)
      BY <1>9 DEF DnssecOnNote
    <2> QED
      BY <1>0, <1>2, <1>8, <2>1, <2>2 DEF Asks, Upstreams, ChoiceFits
  <1>10. CASE DnssecOnBatch(r)
    <2>1. HasRead(r) /\ ~HasRead(r)' /\ kind[r] = "dnssecOn"
      BY <1>0, <1>10 DEF DnssecOnBatch, Step, HasRead
    <2>2. UNCHANGED <<dnssecAdded, chosen, stale>>
          /\ (Upstreams(got[r].file) # {} => dnsFile' = [dnsFile EXCEPT !.dnssec = TRUE])
      BY <1>10 DEF DnssecOnBatch
    <2>3. dnsFile \in DnsType
      BY DEF NamesInv
    <2>4. ASSUME Real(chosen), ~stale PROVE Asks(chosen)' /\ ~dnssecAdded'
      <3>1. dnsFile' = [dnsFile EXCEPT !.dnssec = TRUE]
        BY <1>2, <1>8, <2>1, <2>2, <2>4 DEF ChoiceFits
      <3>2. dnsFile'.server = dnsFile.server /\ dnsFile'.noresolv = dnsFile.noresolv
        BY <2>3, <3>1 DEF DnsType
      <3> QED
        BY <1>2, <2>2, <2>4, <3>2 DEF Asks, Upstreams
    <2> QED
      BY <1>0, <2>1, <2>2, <2>4 DEF ChoiceFits
  <1>11. CASE DnssecOffNote(r)
    <2>1. HasRead(r) /\ kind[r] = "dnssecOff"
      BY <1>11 DEF DnssecOffNote, Step, HasRead
    <2>2. UNCHANGED <<dnsFile, chosen, stale>> /\ dnssecAdded' \in {FALSE, dnssecAdded}
      BY <1>11 DEF DnssecOffNote
    <2>3. got'[r].ask = dnssecAdded /\ got'[r].file = got[r].file
      BY <1>11 DEF DnssecOffNote, NamesInv, GotType
    <2> QED
      BY <1>0, <1>2, <2>1, <2>2, <2>3 DEF Asks, Upstreams, ChoiceFits
  <1>12. CASE DnssecOffBatch(r)
    <2>1. HasRead(r) /\ ~HasRead(r)' /\ kind[r] = "dnssecOff" /\ at[r] = "batch"
          /\ at'[r] = "restart"
      BY <1>0, <1>12 DEF DnssecOffBatch, Step, HasRead
    <2>2. UNCHANGED <<dnssecAdded, chosen, stale>>
      BY <1>12 DEF DnssecOffBatch
    <2>3. dnsFile \in DnsType
      BY DEF NamesInv
    <2>4. ASSUME Real(chosen), ~stale PROVE Asks(chosen)' /\ ~dnssecAdded'
      <3>1. ~got[r].ask
        BY <1>2, <2>1, <2>4 DEF ChoiceFits
      <3>2. dnsFile'.server = dnsFile.server
        BY <1>12, <2>3, <3>1 DEF DnssecOffBatch, DnsType
      <3>3. dnsFile'.noresolv = (dnsFile.noresolv /\ ~(got[r].ask /\ got[r].file.noresolv))
        BY <1>12, <2>3 DEF DnssecOffBatch, DnsType
      <3> QED
        BY <1>2, <2>2, <2>4, <3>1, <3>2, <3>3 DEF Asks, Upstreams
    <2> QED
      BY <1>0, <2>1, <2>2, <2>4 DEF ChoiceFits
  <1>13. CASE UpstreamBatch(r)
    <2>1. HasRead(r) /\ kind[r] = "upstream" /\ at'[r] = "note"
      BY <1>0, <1>13 DEF UpstreamBatch, Step, HasRead
    <2>2. /\ chosen' = None /\ ~HasRead(r)'
          /\ Real(got'[r].ask) =>
               /\ Upstreams(dnsFile') = {Upstream(s) : s \in got'[r].ask}
               /\ dnsFile'.noresolv
      BY <1>2, <1>13, <2>1, UpstreamAsks DEF ChoiceFits
    <2> QED
      BY <1>0, <2>1, <2>2 DEF ChoiceFits, Asks, Real
  <1>14. CASE UpstreamNote(r)
    <2>1. kind[r] = "upstream" /\ at[r] = "note" /\ at'[r] = "restart"
      BY <1>0, <1>14 DEF UpstreamNote, Step
    <2>2. /\ dnssecAdded' = FALSE \/ (stale' = dnssecAdded /\ dnssecAdded' = dnssecAdded)
          /\ ~HasRead(r)' /\ UNCHANGED <<dnsFile, got, chosen>>
      BY <1>14, UpstreamNoteType
    <2> QED
      BY <1>0, <1>2, <2>1, <2>2 DEF ChoiceFits, Real, Asks, Upstreams
  <1>15. CASE \E k \in {"namesApply", "dnssecOn", "dnssecOff"} :
                 RestartDnsmasq(r, k) /\ UNCHANGED chosen
    <2>1. ~HasRead(r)' /\ kind[r] \in {"namesApply", "dnssecOn", "dnssecOff"}
          /\ at'[r] = "done" /\ UNCHANGED <<dnsFile, got, dnssecAdded, stale>>
      BY <1>0, <1>15 DEF RestartDnsmasq, Step, HasRead
    <2> QED
      BY <1>0, <1>2, <1>15, <2>1 DEF ChoiceFits, Real, Asks, Upstreams
  <1>16. CASE RestartDnsmasq(r, "upstream") /\ chosen' = got[r].ask
    <2>1. ~HasRead(r)' /\ kind[r] = "upstream" /\ at[r] = "restart"
          /\ at'[r] = "done" /\ UNCHANGED <<dnsFile, got, dnssecAdded, stale>>
      BY <1>0, <1>16 DEF RestartDnsmasq, Step, HasRead
    <2> QED
      BY <1>0, <1>2, <1>16, <2>1 DEF ChoiceFits, Real, Asks, Upstreams
  <1> QED
    BY <1>3, <1>4, <1>5, <1>6, <1>7, <1>9, <1>10, <1>11, <1>12, <1>13, <1>14, <1>15, <1>16
       DEF NamesStep

(* ChoiceInv is inductive. *)
LEMMA ChoiceInvStep ==
  ASSUME CallsInv, NamesInv, ChoiceInv, [Next]_vars
  PROVE  ChoiceInv'
  <1>1. CASE InTurn'
    <2>1. InTurn
      BY <1>1, CallsInvStep
    <2> QED
      BY <1>1, <2>1, NamesOrAside, AsideChoice, ChoiceStep
  <1>2. CASE ~InTurn'
    BY <1>2 DEF ChoiceInv
  <1> QED
    BY <1>1, <1>2

(* Servers somebody has chosen stay the only ones dnsmasq asks, through    *)
(* every apply of the names, every switch of DNSSEC and every failure, as  *)
(* long as no two requests overlap: a family filter does not end quietly   *)
(* (handleDNSUpstreamSet, handleDNSSECSet, core/dnsupstream.go, dns.go),   *)
(* but for a choice whose note DNSSEC never got (dnsupstream.go:217).      *)
THEOREM AChoiceAlwaysStays == Spec => []ChoiceStays
  <1> DEFINE Inv == CallsInv /\ NamesInv /\ ChoiceInv
  <1>1. Init => Inv
    BY CallsInvInit, NamesInvInit, ChoiceInvInit
  <1>2. Inv /\ [Next]_vars => Inv'
    BY CallsInvStep, NamesInvStep, ChoiceInvStep
  <1>3. Inv => ChoiceStays
    BY DEF ChoiceInv, ChoiceStays, Asks, Real
  <1> HIDE DEF Inv
  <1> QED
    BY <1>1, <1>2, <1>3, PTL DEF Spec

(* Request r is an apply of the names at one of these labels.              *)
Applies(r, labels) == kind[r] = "namesApply" /\ at[r] \in labels

(* A request beside which no other runs has in hand what is there.         *)
InHand(r) ==
  LET g == got[r]
  IN  /\ HasRead(r) => g.file = dnsFile
      /\ Applies(r, {"file", "split", "forward", "batch"}) =>
           g.records = RecordSections
      /\ Applies(r, {"forward", "batch"}) => g.ourSplit = noted.split
      /\ Applies(r, {"forward", "batch", "noteSplit", "noteForward"}) =>
           g.split = Entries(split)
      /\ Applies(r, {"batch"}) => g.ourForward = noted.forward
      /\ Applies(r, {"batch", "noteSplit", "noteForward"}) =>
           g.forward = Entries(forward)

(* What the tables ask for is in the section of dnsmasq.                   *)
RowsInPlace ==
  /\ dnsFile.records = RecordSections
  /\ Entries(split) \subseteq dnsFile.address
  /\ Entries(forward) \subseteq dnsFile.server
  /\ Domains(Entries(forward)) \subseteq dnsFile.rebind

(* Besides these entries and those made by hand, a list has at most some   *)
(* committed and not noted.                                                *)
AddressHas(entries) ==
  dnsFile.address \subseteq ByHand \cup entries \cup unnoted.split
(* The same of the list of servers, but for the upstream ones. *)
ServerHas(entries) ==
  /\ dnsFile.server \ Upstreams(dnsFile)
       \subseteq ByHand \cup entries \cup unnoted.forward
  /\ dnsFile.rebind \subseteq Domains(entries \cup unnoted.forward)

(* What the lists have while an apply notes what it has written.           *)
ListsHave(r) ==
  /\ Applies(r, {"noteSplit"}) => AddressHas({})
  /\ Applies(r, {"noteForward", "restart"}) => AddressHas(Entries(split))
  /\ Applies(r, {"noteSplit", "noteForward"}) => ServerHas({})
  /\ Applies(r, {"restart"}) => ServerHas(Entries(forward))

(* What is true of an apply beside which no other request runs. *)
ApplyFits(r) ==
  InHand(r) /\ (Applies(r, {"noteSplit", "noteForward", "restart"}) => RowsInPlace)

(* An apply beside which no other request runs writes what the tables say; *)
(* and as long as requests come one at a time, the lists have nothing but  *)
(* what was made by hand, noted, or committed and not noted.               *)
ForceInv ==
  /\ \A r \in Request : kind[r] = "namesApply" => at[r] \in ApplyLabel
  /\ \A r \in alone : ApplyFits(r)
  /\ InTurn => /\ AddressHas(noted.split) /\ ServerHas(noted.forward)
               /\ \A r \in Request : ListsHave(r)

(* As far as request r is concerned.                                       *)
ForceFits(r) ==
  /\ kind[r] = "namesApply" => at[r] \in ApplyLabel
  /\ r \in alone => ApplyFits(r)
  /\ InTurn => AddressHas(noted.split) /\ ServerHas(noted.forward) /\ ListsHave(r)

(* At first the lists have what was made by hand.                          *)
LEMMA ForceInvInit == Init => ForceInv
  <1> SUFFICES ASSUME NEW s \in Scenario, CallsInit(s), NamesInit(s) PROVE ForceInv
    BY DEF Init
  <1>1. \A r \in Request : at[r] = "new"
    BY DEF CallsInit
  <1>2. /\ dnsFile.address = ByHand /\ dnsFile.server = ByHand \cup s.server
        /\ dnsFile.rebind = {} /\ alone = {}
    BY DEF NamesInit, CallsInit
  <1>3. dnsFile.server \ Upstreams(dnsFile) \subseteq ByHand
    BY <1>2, NamesAssumption DEF Upstreams
  <1>4. AddressHas(noted.split) /\ ServerHas(noted.forward)
    BY <1>2, <1>3 DEF AddressHas, ServerHas
  <1>5. \A r \in Request : ListsHave(r) /\ at[r] \in ApplyLabel
    BY <1>1 DEF ListsHave, Applies, ApplyLabel
  <1> QED
    BY <1>2, <1>4, <1>5 DEF ForceInv

(* A step of another handler.                                              *)
LEMMA AsideForce ==
  ASSUME CallsInv, ForceInv, [Next]_vars, \A q \in Request : Aside(q), kind' = kind,
         UNCHANGED <<tables, dnsFile, noted, got, unnoted>>
  PROVE  ForceInv'
  <1>1. ASSUME NEW q \in Request, kind'[q] = "namesApply" PROVE at'[q] \in ApplyLabel
    BY <1>1 DEF ForceInv, Aside, ApplyLabel
  <1>2. ASSUME NEW q \in Request
        PROVE  /\ HasRead(q)' => HasRead(q)
               /\ at'[q] \in NamesLabel /\ kind[q] = "namesApply" => at'[q] = at[q]
    BY DEF Aside, HasRead, NamesLabel
  <1>3. ASSUME NEW q \in Request, NEW labels \in SUBSET NamesLabel, Applies(q, labels)'
        PROVE  Applies(q, labels)
    BY <1>2, <1>3 DEF Applies
  <1>4. UNCHANGED <<RecordSections, Entries(split), Entries(forward), RowsInPlace>>
    BY DEF tables, RecordSections, Entries, Rows, RowsInPlace, Domains
  <1>5. ASSUME NEW q \in alone' PROVE ApplyFits(q)'
    <2>1. q \in alone \/ at'[q] = "start"
      BY BecomesAlone
    <2>2. q \in Request /\ CallsInv'
      BY CallsInvStep DEF CallsInv
    <2>3. CASE at'[q] = "start"
      BY <2>3 DEF ApplyFits, InHand, HasRead, Applies
    <2>4. CASE q \in alone
      BY <1>2, <1>4, <2>2, <2>4 DEF ForceInv, ApplyFits, InHand, Applies, NamesLabel
    <2> QED
      BY <2>1, <2>3, <2>4
  <1>6. ASSUME InTurn'
        PROVE  /\ AddressHas(noted.split)' /\ ServerHas(noted.forward)'
               /\ \A q \in Request : ListsHave(q)'
    <2>1. InTurn
      BY <1>6, CallsInvStep
    <2>2. \A entries : /\ AddressHas(entries)' <=> AddressHas(entries)
                       /\ ServerHas(entries)' <=> ServerHas(entries)
      BY DEF AddressHas, ServerHas, Upstreams, Domains
    <2>3. \A q \in Request : ListsHave(q)
      BY <2>1 DEF ForceInv
    <2>4. \A q \in Request : ListsHave(q)'
      BY <1>2, <1>4, <2>2, <2>3 DEF ListsHave, Applies, NamesLabel
    <2>5. AddressHas(noted.split) /\ ServerHas(noted.forward)
      BY <2>1 DEF ForceInv
    <2> QED
      BY <2>2, <2>4, <2>5 DEF AddressHas, ServerHas, Upstreams, Domains
  <1> QED
    BY <1>1, <1>5, <1>6 DEF ForceInv

(* The tables, and what others write of the section, are no business of an *)
(* apply that does not overlap them.                                       *)
LEMMA OthersForce ==
  ASSUME CallsInv, NEW r \in Request, Goes(r), ForceFits(r),
         kind[r] # "namesApply", UNCHANGED <<noted, unnoted>>,
         dnsFile'.address = dnsFile.address, dnsFile'.rebind = dnsFile.rebind,
         \A e \in dnsFile'.server \ dnsFile.server : IsUpstream(e),
         r \in alone /\ HasRead(r)' => got'[r].file = dnsFile'
  PROVE  ForceFits(r)'
  <1>1. kind' = kind /\ alone' = alone /\ (InTurn' => InTurn)
    BY GoesCalls DEF Goes
  <1>2. ~Applies(r, {"noteSplit", "noteForward", "restart"})'
        /\ \A labels : ~Applies(r, labels)'
    BY <1>1 DEF Applies
  <1>3. (r \in alone => ApplyFits(r)') /\ ListsHave(r)'
    BY <1>1, <1>2 DEF ApplyFits, InHand, ListsHave
  <1>4. ASSUME InTurn PROVE AddressHas(noted.split)' /\ ServerHas(noted.forward)'
    BY <1>4 DEF ForceFits, AddressHas, ServerHas, Upstreams, Domains
  <1> QED
    BY <1>1, <1>3, <1>4 DEF ForceFits

(* An apply that reads.                                                    *)
LEMMA ReadsForce ==
  ASSUME CallsInv, NamesInv, NEW r \in Request, Goes(r), ForceFits(r),
         \/ ApplyReadRecords(r) \/ ReadFile(r, "namesApply", "file", "split")
         \/ ApplyReadSplit(r) \/ ApplyReadForward(r)
  PROVE  ForceFits(r)'
  <1>0. /\ kind' = kind /\ alone' = alone /\ (InTurn' => InTurn)
        /\ at \in [Request -> Label] /\ got \in [Request -> GotType] /\ got[r] \in GotType
    BY GoesCalls DEF Goes, CallsInv, NamesInv
  <1>1. /\ OnlyGot /\ kind[r] = "namesApply"
        /\ at'[r] \in {"file", "split", "forward", "batch"}
    BY <1>0 DEF ApplyReadRecords, ReadFile, ApplyReadSplit, ApplyReadForward, Step
  <1>2. UNCHANGED <<RecordSections, Entries(split), Entries(forward), noted, dnsFile>>
    BY <1>1 DEF OnlyGot, tables, RecordSections, Entries, Rows
  <1>3. /\ at'[r] \in ApplyLabel /\ ~Applies(r, {"noteSplit", "noteForward", "restart"})'
        /\ ListsHave(r)'
    BY <1>1 DEF ApplyLabel, Applies, ListsHave
  <1>4. ASSUME InTurn PROVE AddressHas(noted.split)' /\ ServerHas(noted.forward)'
    BY <1>1, <1>4 DEF ForceFits, AddressHas, ServerHas, Upstreams, Domains, OnlyGot
  <1>5. ASSUME InHand(r) PROVE InHand(r)'
    <2>1. CASE ApplyReadRecords(r)
      <3>1. at'[r] = "file" /\ got'[r].records = RecordSections
        BY <1>0, <2>1 DEF ApplyReadRecords, Step, GotType
      <3> QED
        BY <1>0, <1>1, <1>2, <3>1 DEF InHand, Applies, HasRead
    <2>2. CASE ReadFile(r, "namesApply", "file", "split")
      <3>1. /\ at[r] = "file" /\ at'[r] = "split" /\ got'[r].file = dnsFile
            /\ got'[r].records = got[r].records
        BY <1>0, <2>2 DEF ReadFile, Step, GotType
      <3> QED
        BY <1>0, <1>1, <1>2, <1>5, <3>1 DEF InHand, Applies, HasRead
    <2>3. CASE ApplyReadSplit(r)
      <3>1. /\ at[r] = "split" /\ at'[r] = "forward" /\ got'[r].file = got[r].file
            /\ got'[r].records = got[r].records
            /\ got'[r].split = Entries(split) /\ got'[r].ourSplit = noted.split
        BY <1>0, <2>3 DEF ApplyReadSplit, Step, GotType
      <3> QED
        BY <1>0, <1>1, <1>2, <1>5, <3>1 DEF InHand, Applies, HasRead
    <2>4. CASE ApplyReadForward(r)
      <3>1. /\ at[r] = "forward" /\ at'[r] = "batch" /\ got'[r].file = got[r].file
            /\ got'[r].records = got[r].records
            /\ got'[r].split = got[r].split /\ got'[r].ourSplit = got[r].ourSplit
            /\ got'[r].forward = Entries(forward) /\ got'[r].ourForward = noted.forward
        BY <1>0, <2>4 DEF ApplyReadForward, Step, GotType
      <3> QED
        BY <1>0, <1>1, <1>2, <1>5, <3>1 DEF InHand, Applies, HasRead
    <2> QED
      BY <2>1, <2>2, <2>3, <2>4
  <1> QED
    BY <1>0, <1>3, <1>4, <1>5 DEF ForceFits, ApplyFits

(* The batch makes each list anew of what was there, without what was      *)
(* noted, and of what is wanted.                                           *)
LEMMA BatchForce ==
  ASSUME CallsInv, NamesInv, NEW r \in Request, Goes(r), ForceFits(r), ApplyBatch(r)
  PROVE  ForceFits(r)'
  <1> DEFINE g == got[r]
  <1>0. /\ kind' = kind /\ alone' = alone /\ (InTurn' => InTurn)
        /\ InTurn => r \in alone
        /\ at \in [Request -> Label] /\ dnsFile \in DnsType
    BY GoesCalls DEF Goes, CallsInv, NamesInv, InTurn, Active, Began
  <1>1. /\ kind[r] = "namesApply" /\ at[r] = "batch" /\ at'[r] = "noteSplit" /\ got' = got
        /\ HasRead(r) /\ UNCHANGED <<tables, noted>>
    BY <1>0 DEF ApplyBatch, Step, HasRead
  <1>2. UNCHANGED <<RecordSections, Entries(split), Entries(forward), noted>>
    BY <1>1 DEF tables, RecordSections, Entries, Rows
  <1>3. /\ at'[r] \in ApplyLabel /\ ~HasRead(r)'
        /\ \A labels : Applies(r, labels)' <=> "noteSplit" \in labels
    BY <1>0, <1>1 DEF ApplyLabel, Applies, HasRead
  <1>4. /\ g \in GotType
        /\ dnsFile'.address = Rebuilt(dnsFile.address, g.file.address, g.ourSplit, g.split)
        /\ dnsFile'.server = Rebuilt(dnsFile.server, g.file.server, g.ourForward, g.forward)
        /\ dnsFile'.rebind = Rebuilt(dnsFile.rebind, g.file.rebind,
                                     Domains(g.ourForward), Domains(g.forward))
    BY BatchType
  <1>5. dnsFile'.records =
          {s \in dnsFile.records : s[1] \notin Domains(g.file.records \cup g.records)}
            \cup g.records
    BY <1>0 DEF ApplyBatch, DnsType
  <1>6. /\ unnoted'.split = unnoted.split \cup g.split
        /\ unnoted'.forward = unnoted.forward \cup g.forward
    BY DEF ApplyBatch
  <1>7. ASSUME r \in alone
        PROVE  /\ g.file = dnsFile /\ g.records = RecordSections
               /\ g.split = Entries(split) /\ g.forward = Entries(forward)
               /\ g.ourSplit = noted.split /\ g.ourForward = noted.forward
    BY <1>1, <1>7 DEF ForceFits, ApplyFits, InHand, Applies
  <1> HIDE DEF g
  <1>8. ASSUME r \in alone PROVE ApplyFits(r)'
    <2>1. dnsFile'.records = RecordSections
      BY <1>5, <1>7, <1>8 DEF Domains
    <2>2. /\ Entries(split) \subseteq dnsFile'.address
          /\ Entries(forward) \subseteq dnsFile'.server
          /\ Domains(Entries(forward)) \subseteq dnsFile'.rebind
      BY <1>4, <1>7, <1>8 DEF Rebuilt
    <2>3. RowsInPlace'
      BY <1>2, <2>1, <2>2 DEF RowsInPlace
    <2>4. got'[r] = g
      BY <1>1 DEF g
    <2> QED
      BY <1>2, <1>3, <1>7, <1>8, <2>3, <2>4 DEF ApplyFits, InHand
  <1>9. ASSUME InTurn
        PROVE  AddressHas({})' /\ ServerHas({})'
    <2>0. r \in alone /\ AddressHas(noted.split) /\ ServerHas(noted.forward)
      BY <1>0, <1>9 DEF ForceFits
    <2>1. AddressHas({})'
      BY <1>4, <1>6, <1>7, <2>0 DEF AddressHas, Rebuilt
    <2>2. ASSUME NEW e \in dnsFile'.server, ~IsUpstream(e)
          PROVE  e \in ByHand \cup unnoted.forward \cup g.forward
      BY <1>4, <1>7, <2>0, <2>2 DEF ServerHas, Rebuilt, Upstreams
    <2>3. ASSUME NEW d \in dnsFile'.rebind
          PROVE  d \in Domains(unnoted.forward \cup g.forward)
      BY <1>4, <1>7, <2>0, <2>3 DEF ServerHas, Rebuilt, Domains
    <2>4. ServerHas({})'
      BY <1>6, <2>2, <2>3 DEF ServerHas, Upstreams, Domains
    <2> QED
      BY <2>1, <2>4
  <1>10. ASSUME AddressHas({})', ServerHas({})'
         PROVE  AddressHas(noted.split)' /\ ServerHas(noted.forward)' /\ ListsHave(r)'
    BY <1>3, <1>10 DEF AddressHas, ServerHas, Domains, ListsHave
  <1> QED
    BY <1>0, <1>1, <1>3, <1>8, <1>9, <1>10 DEF ForceFits

(* What it notes is what it has written.                                   *)
LEMMA NotesForce ==
  ASSUME CallsInv, NamesInv, NEW r \in Request, Goes(r), ForceFits(r),
         ApplyNoteSplit(r) \/ ApplyNoteForward(r)
  PROVE  ForceFits(r)'
  <1>0. /\ kind' = kind /\ alone' = alone /\ (InTurn' => InTurn)
        /\ InTurn => r \in alone
        /\ at \in [Request -> Label] /\ noted \in NotedType /\ unnoted \in NotedType
    BY GoesCalls DEF Goes, CallsInv, NamesInv, InTurn, Active, Began
  <1>1. /\ kind[r] = "namesApply" /\ at[r] \in {"noteSplit", "noteForward"}
        /\ UNCHANGED <<tables, dnsFile, got>>
        /\ at'[r] = (IF at[r] = "noteSplit" THEN "noteForward" ELSE "restart")
    BY <1>0 DEF ApplyNoteSplit, ApplyNoteForward, Step
  <1>2. UNCHANGED <<RecordSections, Entries(split), Entries(forward), RowsInPlace>>
    BY <1>1 DEF tables, RecordSections, Entries, Rows, RowsInPlace, Domains
  <1>3. at'[r] \in ApplyLabel /\ ~HasRead(r)'
    BY <1>0, <1>1 DEF ApplyLabel, HasRead
  <1>4. ASSUME r \in alone PROVE ApplyFits(r)'
    BY <1>0, <1>1, <1>2, <1>3, <1>4 DEF ForceFits, ApplyFits, InHand, Applies
  <1>5. ASSUME InTurn
        PROVE  AddressHas(noted.split)' /\ ServerHas(noted.forward)' /\ ListsHave(r)'
    <2>0. /\ got[r].split = Entries(split) \/ at[r] # "noteSplit"
          /\ got[r].forward = Entries(forward)
          /\ AddressHas(noted.split) /\ ServerHas(noted.forward) /\ ServerHas({})
          /\ at[r] = "noteSplit" => AddressHas({})
          /\ at[r] = "noteForward" => AddressHas(Entries(split))
      BY <1>0, <1>1, <1>5 DEF ForceFits, ApplyFits, InHand, ListsHave, Applies
    <2>1. CASE ApplyNoteSplit(r)
      <3>1. at[r] = "noteSplit" /\ at'[r] = "noteForward"
            /\ got[r].split = Entries(split)
        BY <1>0, <2>0, <2>1 DEF ApplyNoteSplit, Step
      <3>2. /\ noted'.forward = noted.forward /\ unnoted'.forward = unnoted.forward
            /\ \/ /\ noted'.split = Entries(split)
                  /\ unnoted'.split = unnoted.split \ Entries(split)
               \/ noted'.split = noted.split /\ unnoted'.split = unnoted.split
        BY <1>0, <2>1, <3>1 DEF ApplyNoteSplit, NotedType
      <3>3. ServerHas(noted.forward)' /\ ServerHas({})'
        BY <1>1, <2>0, <3>2 DEF ServerHas, Upstreams, Domains
      <3>4. AddressHas(noted.split)' /\ AddressHas(Entries(split))'
        BY <1>1, <1>2, <2>0, <3>1, <3>2 DEF AddressHas
      <3> QED
        BY <1>2, <3>1, <3>3, <3>4 DEF ListsHave, Applies
    <2>2. CASE ApplyNoteForward(r)
      <3>1. at[r] = "noteForward" /\ at'[r] = "restart"
        BY <1>0, <2>2 DEF ApplyNoteForward, Step
      <3>2. /\ noted'.split = noted.split /\ unnoted'.split = unnoted.split
            /\ \/ /\ noted'.forward = Entries(forward)
                  /\ unnoted'.forward = unnoted.forward \ Entries(forward)
               \/ noted'.forward = noted.forward /\ unnoted'.forward = unnoted.forward
        BY <1>0, <2>0, <2>2 DEF ApplyNoteForward, NotedType
      <3>3. AddressHas(noted.split)' /\ AddressHas(Entries(split))'
        BY <1>1, <1>2, <2>0, <3>1, <3>2 DEF AddressHas
      <3>4. ServerHas(noted.forward)' /\ ServerHas(Entries(forward))'
        BY <1>1, <1>2, <2>0, <3>2 DEF ServerHas, Upstreams, Domains
      <3> QED
        BY <1>2, <3>1, <3>3, <3>4 DEF ListsHave, Applies
    <2> QED
      BY <2>1, <2>2
  <1> QED
    BY <1>0, <1>3, <1>4, <1>5 DEF ForceFits

(* What NamesInForce says of a step.                                       *)
NamesInForceStep ==
  \A r \in Request : Finishes(r, "namesApply") =>
       /\ dnsRun'.records = RecordSections
       /\ ByHand \cup Entries(split) \subseteq dnsRun'.address
       /\ ByHand \cup Entries(forward) \subseteq dnsRun'.server
       /\ Domains(Entries(forward)) \subseteq dnsRun'.rebind
       /\ InTurn =>
            /\ dnsRun'.address
                 \subseteq ByHand \cup Entries(split) \cup unnoted.split
            /\ dnsRun'.server \ Upstreams(dnsRun')
                 \subseteq ByHand \cup Entries(forward) \cup unnoted.forward
            /\ dnsRun'.rebind
                 \subseteq Domains(Entries(forward) \cup unnoted.forward)

(* The steps of the handlers of the names, one by one.                     *)
LEMMA ForceStep ==
  ASSUME CallsInv, NamesInv, NEW r \in Request, Goes(r), NamesStep(r), ForceFits(r)
  PROVE  ForceFits(r)'
  <1>0. /\ kind' = kind /\ at \in [Request -> Label] /\ dnsFile \in DnsType
    BY DEF Goes, CallsInv, NamesInv
  <1>1. CASE \/ RecordCreate(r) \/ RecordUpdate(r) \/ RecordDelete(r)
             \/ SplitCreate(r) \/ SplitUpdate(r) \/ SplitDelete(r)
             \/ ForwardCreate(r) \/ ForwardUpdate(r) \/ ForwardDelete(r)
    <2>1. /\ UNCHANGED <<got, dnsFile, noted, unnoted>>
          /\ kind[r] \in {"recordSave", "recordDelete", "splitSave", "splitDelete",
                          "forwardSave", "forwardDelete"}
      BY <1>1, TableSteps
    <2> QED
      BY <1>0, <2>1, OthersForce DEF HasRead
  <1>2. CASE ForwardCheck(r)
    <2>1. kind[r] = "forwardSave" /\ UNCHANGED <<dnsFile, noted, unnoted>>
      BY <1>2 DEF ForwardCheck, Step, OnlyGot
    <2> QED
      BY <1>0, <2>1, OthersForce DEF HasRead
  <1>3. CASE \/ ApplyReadRecords(r) \/ ReadFile(r, "namesApply", "file", "split")
             \/ ApplyReadSplit(r) \/ ApplyReadForward(r)
    BY <1>3, ReadsForce
  <1>4. CASE ApplyBatch(r)
    BY <1>4, BatchForce
  <1>5. CASE ApplyNoteSplit(r) \/ ApplyNoteForward(r)
    BY <1>5, NotesForce
  <1>6. CASE \/ ReadFile(r, "dnssecOn", "start", "note")
             \/ ReadFile(r, "dnssecOff", "start", "note")
             \/ ReadFile(r, "upstream", "start", "batch")
    <2>1. kind[r] # "namesApply" /\ UNCHANGED <<dnsFile, noted, unnoted>>
      BY <1>6 DEF ReadFile, Step, OnlyGot
    <2>2. got'[r].file = dnsFile
      BY <1>6 DEF ReadFile, NamesInv, GotType
    <2> QED
      BY <2>1, <2>2, OthersForce
  <1>7. CASE \/ DnssecOnNote(r) \/ DnssecOnBatch(r)
             \/ DnssecOffNote(r) \/ DnssecOffBatch(r)
    <2>1. /\ UNCHANGED <<noted, unnoted>> /\ got'[r].file = got[r].file
          /\ dnsFile'.address = dnsFile.address /\ dnsFile'.rebind = dnsFile.rebind
          /\ dnsFile'.server \subseteq dnsFile.server \cup AnycastEntries
          /\ HasRead(r)
      BY <1>7, DnssecType
    <2>2. kind[r] # "namesApply"
      BY <1>7 DEF DnssecOnNote, DnssecOnBatch, DnssecOffNote, DnssecOffBatch, Step
    <2>3. \A e \in dnsFile'.server \ dnsFile.server : IsUpstream(e)
      BY <2>1, UpstreamIs DEF AnycastEntries
    <2>4. CASE DnssecOnNote(r) \/ DnssecOffNote(r)
      <3>1. UNCHANGED dnsFile
        BY <2>4 DEF DnssecOnNote, DnssecOffNote
      <3>2. r \in alone => got[r].file = dnsFile
        BY <2>1 DEF ForceFits, ApplyFits, InHand
      <3> QED
        BY <2>1, <2>2, <2>3, <3>1, <3>2, OthersForce
    <2>5. CASE DnssecOnBatch(r) \/ DnssecOffBatch(r)
      <3>1. ~HasRead(r)'
        BY <1>0, <2>5 DEF DnssecOnBatch, DnssecOffBatch, Step, HasRead
      <3> QED
        BY <2>1, <2>2, <2>3, <3>1, OthersForce
    <2> QED
      BY <1>7, <2>4, <2>5
  <1>8. CASE UpstreamBatch(r)
    <2>1. PICK p \in Preset :
            /\ ~HasRead(r)' /\ HasRead(r) /\ UNCHANGED <<noted, unnoted>>
            /\ dnsFile'.address = dnsFile.address /\ dnsFile'.rebind = dnsFile.rebind
            /\ dnsFile'.server = (IF got[r].file.server = {} THEN dnsFile.server ELSE {})
                                   \cup (got[r].file.server \ Upstreams(got[r].file))
                                   \cup {Upstream(s) : s \in p}
      BY <1>8, UpstreamType
    <2>2. kind[r] # "namesApply"
      BY <1>8 DEF UpstreamBatch, Step
    <2>3. CASE r \in alone
      <3>1. got[r].file = dnsFile
        BY <2>1, <2>3 DEF ForceFits, ApplyFits, InHand
      <3>2. \A e \in dnsFile'.server \ dnsFile.server : IsUpstream(e)
        BY <2>1, <3>1, UpstreamIs
      <3> QED
        BY <2>1, <2>2, <3>2, OthersForce
    <2>4. CASE r \notin alone
      <3>1. ~InTurn' /\ r \notin alone'
        BY <1>0, <2>4, GoesCalls DEF Goes, InTurn, Active, Began
      <3> QED
        BY <1>0, <2>2, <3>1 DEF ForceFits
    <2> QED
      BY <2>3, <2>4
  <1>9. CASE UpstreamNote(r)
    <2>1. ~HasRead(r)' /\ UNCHANGED <<dnsFile, noted, unnoted>>
      BY <1>9, UpstreamNoteType
    <2>2. kind[r] # "namesApply"
      BY <1>9 DEF UpstreamNote, Step
    <2> QED
      BY <2>1, <2>2, OthersForce
  <1>10. CASE \/ \E k \in {"namesApply", "dnssecOn", "dnssecOff"} : RestartDnsmasq(r, k)
              \/ RestartDnsmasq(r, "upstream")
    <2>1. /\ at'[r] = "done" /\ UNCHANGED <<tables, dnsFile, noted, got, unnoted>>
      BY <1>0, <1>10 DEF RestartDnsmasq, Step
    <2>2. ApplyFits(r)' /\ ListsHave(r)'
      BY <2>1 DEF ApplyFits, InHand, ListsHave, Applies, HasRead
    <2>3. InTurn' => InTurn
      BY GoesCalls
    <2>4. ASSUME InTurn PROVE AddressHas(noted.split)' /\ ServerHas(noted.forward)'
      BY <2>1, <2>4 DEF ForceFits, AddressHas, ServerHas, Upstreams, Domains
    <2> QED
      BY <2>1, <2>2, <2>3, <2>4 DEF ForceFits, ApplyLabel
  <1> QED
    BY <1>1, <1>2, <1>3, <1>4, <1>5, <1>6, <1>7, <1>8, <1>9, <1>10 DEF NamesStep

(* ForceInv is inductive. *)
LEMMA ForceInvStep ==
  ASSUME CallsInv, NamesInv, ForceInv, [Next]_vars
  PROVE  ForceInv'
  <1>1. ASSUME NEW r \in Request, NamesStep(r), Goes(r)
        PROVE  ForceInv'
    <2>0. /\ kind' = kind /\ alone' = alone /\ (InTurn' => InTurn) /\ Active(r)
          /\ alone \subseteq Request /\ \A q \in Request \ {r} : at'[q] = at[q]
      BY <1>1, GoesCalls DEF Goes, CallsInv
    <2>1. ForceFits(r)
      BY DEF ForceInv, ForceFits
    <2>2. ForceFits(r)'
      BY <1>1, <2>1, ForceStep
    <2>3. ASSUME NEW q \in Request, q # r PROVE kind'[q] = "namesApply" => at'[q] \in ApplyLabel
      BY <2>0, <2>3 DEF ForceInv
    <2>4. ASSUME NEW q \in Request, q # r, at'[q] \in {"new", "done", "failed"}
          PROVE  ApplyFits(q)' /\ ListsHave(q)'
      BY <2>4 DEF ApplyFits, InHand, ListsHave, Applies, HasRead
    <2>5. ASSUME NEW q \in Request, q # r, q \in alone \/ InTurn
          PROVE  at'[q] \in {"new", "done", "failed"}
      BY <2>0, <2>5, OnlyOne DEF CallsInv, Active, Over
    <2> QED
      BY <2>0, <2>2, <2>3, <2>4, <2>5 DEF ForceInv, ForceFits
  <1> QED
    BY <1>1, NamesOrAside, AsideForce

(* An apply ends with the restart.                                         *)
LEMMA ForceDone ==
  ASSUME CallsInv, NamesInv, ByHandInv, ForceInv, [Next]_vars
  PROVE  NamesInForceStep
  <1> SUFFICES ASSUME NEW r \in Request, Finishes(r, "namesApply")
               PROVE  /\ dnsRun'.records = RecordSections
                      /\ ByHand \cup Entries(split) \subseteq dnsRun'.address
                      /\ ByHand \cup Entries(forward) \subseteq dnsRun'.server
                      /\ Domains(Entries(forward)) \subseteq dnsRun'.rebind
                      /\ InTurn =>
                           /\ dnsRun'.address
                                \subseteq ByHand \cup Entries(split) \cup unnoted.split
                           /\ dnsRun'.server \ Upstreams(dnsRun')
                                \subseteq ByHand \cup Entries(forward) \cup unnoted.forward
                           /\ dnsRun'.rebind
                                \subseteq Domains(Entries(forward) \cup unnoted.forward)
    BY DEF NamesInForceStep
  <1>1. /\ kind[r] = "namesApply" /\ at[r] # "done" /\ at'[r] = "done" /\ r \in alone
        /\ at[r] \in ApplyLabel
    BY DEF Finishes, ForceInv
  <1>2. ~Aside(r)
    BY <1>1 DEF Aside
  <1>3. PICK q \in Request : NamesStep(q) /\ Goes(q)
    BY <1>2, NamesOrAside
  <1>4. q = r
    BY <1>1, <1>3 DEF Goes, CallsInv
  <1>5. RestartDnsmasq(r, "namesApply")
    BY <1>1, <1>3, <1>4
       DEF NamesStep, RecordCreate, RecordUpdate, RecordDelete, SplitCreate, SplitUpdate,
           SplitDelete, ForwardCheck, ForwardCreate, ForwardUpdate, ForwardDelete,
           ApplyReadRecords, ReadFile, ApplyReadSplit, ApplyReadForward, ApplyBatch,
           ApplyNoteSplit, ApplyNoteForward, DnssecOnNote, DnssecOnBatch, DnssecOffNote,
           DnssecOffBatch, UpstreamBatch, UpstreamNote, RestartDnsmasq, Step, CallsInv, Label
  <1>6. at[r] = "restart" /\ dnsRun' = dnsFile
    BY <1>5 DEF RestartDnsmasq, Step
  <1>7. RowsInPlace /\ (InTurn => AddressHas(Entries(split)) /\ ServerHas(Entries(forward)))
    BY <1>1, <1>6 DEF ForceInv, ApplyFits, ListsHave, Applies
  <1> QED
    BY <1>6, <1>7 DEF RowsInPlace, AddressHas, ServerHas, ByHandInv, ByHandStays

(* An apply of the names that is answered as done, and beside which no     *)
(* other request ran, leaves dnsmasq with every record, every enabled row  *)
(* and whatever was made by hand, after whatever applies that failed,      *)
(* overlapped or crashed; and with nothing else as long as requests come   *)
(* one at a time, but for entries committed and not noted in the settings  *)
(* (handleDNSApply, core/dns.go).                                          *)
THEOREM AnApplyIsInForce == Spec => NamesInForce
  <1> DEFINE Inv == CallsInv /\ NamesInv /\ ByHandInv /\ ForceInv
  <1>1. Init => Inv
    BY CallsInvInit, NamesInvInit, ByHandInvInit, ForceInvInit
  <1>2. Inv /\ [Next]_vars => Inv'
    BY CallsInvStep, NamesInvStep, ByHandInvStep, ForceInvStep
  <1>3. Inv /\ [Next]_vars => [NamesInForceStep]_vars
    BY ForceDone
  <1> HIDE DEF Inv
  <1>4. Spec => [][NamesInForceStep]_vars
    BY <1>1, <1>2, <1>3, PTL DEF Spec
  <1> QED
    BY <1>4, PTL DEF NamesInForce, NamesInForceStep

----------------------------------------------------------------------------
(* The sites and port 80.                                                  *)

(* Where handleProxyApply and handleGuiCertSet may be.                     *)
ProxyApplyLabel == {"new", "start", "wipe", "link", "acme", "write", "stop", "restart", "ports",
                    "portsCommit", "portsReload", "sync", "syncCommit",
                    "syncReload", "done", "failed"}
(* Where a change of the certificate may be, and who has port 80 in hand. *)
GuiSetLabel == {"new", "start", "sync", "syncCommit", "syncReload", "acme",
                "load", "store", "done", "failed"}
(* The labels at which a note of port 80 is in hand. *)
PortLabel == {"portsReload", "syncCommit", "syncReload"}

(* What a handler holds of the sites.                                      *)
SitesType == SUBSET (Host \X BOOLEAN \X BOOLEAN)

(* The types of the sites and of the certificate, and the labels. *)
ProxyInv ==
  /\ site \in [Host -> SiteRow \cup {None}]
  /\ portFile \subseteq {"rp", "gui"}
  /\ sites \in [Request -> SitesType] /\ ports \in [Request -> SUBSET {"rp", "gui"}]
  /\ \A r \in Request : /\ kind[r] = "proxyApply" => at[r] \in ProxyApplyLabel
                        /\ kind[r] = "guiSet" => at[r] \in GuiSetLabel

(* Nothing of the sites and of port 80 goes on.                            *)
Off(q) ==
  /\ at[q] \in PortLabel \/ at'[q] \in PortLabel => at'[q] \in {at[q], "failed"}
  /\ kind[q] = "proxyApply" /\ at[q] \in ProxyApplyLabel =>
       at'[q] \in {at[q], "start", "failed"}
  /\ kind[q] = "guiSet" /\ at[q] \in GuiSetLabel =>
       at'[q] \in {at[q], "start", "failed"}

(* Handlers of the names and of the services touch nothing of them.        *)
LEMMA NamesOff ==
  ASSUME CallsInv, NEW r \in Request, NamesStep(r)
  PROVE  Off(r)
  <1> USE DEF CallsInv, Step, Off, PortLabel, ProxyApplyLabel, GuiSetLabel
  <1>1. CASE RecordCreate(r) \/ RecordUpdate(r) \/ RecordDelete(r)
    BY <1>1 DEF RecordCreate, RecordUpdate, RecordDelete
  <1>2. CASE SplitCreate(r) \/ SplitUpdate(r) \/ SplitDelete(r)
    BY <1>2 DEF SplitCreate, SplitUpdate, SplitDelete
  <1>3. CASE ForwardCheck(r) \/ ForwardCreate(r) \/ ForwardUpdate(r) \/ ForwardDelete(r)
    BY <1>3 DEF ForwardCheck, ForwardCreate, ForwardUpdate, ForwardDelete
  <1>4. CASE ApplyReadRecords(r) \/ ReadFile(r, "namesApply", "file", "split")
    BY <1>4 DEF ApplyReadRecords, ReadFile
  <1>5. CASE ApplyReadSplit(r) \/ ApplyReadForward(r) \/ ApplyBatch(r)
    BY <1>5 DEF ApplyReadSplit, ApplyReadForward, ApplyBatch
  <1>6. CASE ApplyNoteSplit(r) \/ ApplyNoteForward(r)
    BY <1>6 DEF ApplyNoteSplit, ApplyNoteForward
  <1>7. CASE ReadFile(r, "dnssecOn", "start", "note") \/ DnssecOnNote(r) \/ DnssecOnBatch(r)
    BY <1>7 DEF ReadFile, DnssecOnNote, DnssecOnBatch
  <1>8. CASE ReadFile(r, "dnssecOff", "start", "note") \/ DnssecOffNote(r) \/ DnssecOffBatch(r)
    BY <1>8 DEF ReadFile, DnssecOffNote, DnssecOffBatch
  <1>9. CASE ReadFile(r, "upstream", "start", "batch") \/ UpstreamBatch(r) \/ UpstreamNote(r)
    BY <1>9 DEF ReadFile, UpstreamBatch, UpstreamNote
  <1>10. CASE \E k \in {"namesApply", "dnssecOn", "dnssecOff", "upstream"} : RestartDnsmasq(r, k)
    BY <1>10 DEF RestartDnsmasq
  <1> QED
    BY <1>1, <1>2, <1>3, <1>4, <1>5, <1>6, <1>7, <1>8, <1>9, <1>10 DEF NamesStep

(* So do those of the services.                                            *)
LEMMA ServicesOff ==
  ASSUME CallsInv, NEW r \in Request, ServicesStep(r)
  PROVE  Off(r)
  <1> USE DEF Label, Step, Off, PortLabel, ProxyApplyLabel, GuiSetLabel, CallsInv
  <1>1. CASE Arrive(r)
    BY <1>1 DEF Arrive, Scripted
  <1>2. ASSUME NEW n, Goto(r, n) PROVE Off(r)
    BY <1>2 DEF Goto
  <1>3. CASE CopyFile(r) \/ CommitPart(r) \/ ErasePart(r) \/ LoadService(r)
    BY <1>2, <1>3 DEF CopyFile, CommitPart, ErasePart, LoadService, Onward
  <1>4. CASE WriteSetting(r) \/ ReadCrontab(r) \/ WriteCrontab(r) \/ PassStep(r)
    BY <1>2, <1>4 DEF WriteSetting, ReadCrontab, WriteCrontab, PassStep, Onward
  <1>5. CASE Leave(r)
    BY <1>2, <1>5 DEF Leave, Onward
  <1> QED
    BY <1>1, <1>3, <1>4, <1>5 DEF ServicesStep

(* What happens is a step of the sites, or a crash, or nothing of them.    *)
LEMMA ProxyOrOff ==
  ASSUME CallsInv, [Next]_vars
  PROVE  \/ \E r \in Request : ProxyStep(r) /\ Goes(r)
         \/ /\ \A q \in Request : Off(q)
            /\ kind' = kind
            /\ UNCHANGED <<site, guiHost, links, packageVars, portVars, sites, passed>>
         \/ Crash /\ UNCHANGED <<site, portFile, sites, ports, passed>>
  <1> DEFINE Aloof == /\ \A q \in Request : Off(q)
                      /\ kind' = kind
                      /\ UNCHANGED <<site, guiHost, links, packageVars, portVars, sites,
                                     passed>>
  <1>1. CASE UNCHANGED vars
    BY <1>1 DEF vars, callVars, proxyVars, packageVars, portVars, Off
  <1>2. ASSUME NEW r \in Request, Goes(r), Off(r)
        PROVE  kind' = kind /\ \A q \in Request : Off(q)
    BY <1>2 DEF Goes, Off, CallsInv
  <1>3. ASSUME UNCHANGED proxyVars
        PROVE  UNCHANGED <<site, guiHost, links, packageVars, portVars, sites, passed>>
    BY <1>3 DEF proxyVars, packageVars, portVars
  <1>4. ASSUME NEW r \in Request, NamesStep(r), UNCHANGED <<proxyVars, serviceVars>>
        PROVE  Aloof
    BY <1>2, <1>3, <1>4, NamesGoes, NamesOff
  <1>5. ASSUME NEW r \in Request, ServicesStep(r), UNCHANGED <<nameVars, proxyVars>>
        PROVE  Aloof
    BY <1>2, <1>3, <1>5, ServicesGoes, ServicesOff
  <1>6. ASSUME NEW r \in Request, Begin(r) \/ Fails(r)
        PROVE  kind' = kind /\ \A q \in Request : Off(q)
    <2>1. CASE Begin(r)
      BY <2>1 DEF Begin, CallsInv, Off, PortLabel, ProxyApplyLabel, GuiSetLabel
    <2>2. CASE Fails(r)
      BY <2>2 DEF Fails, Fail, CallsInv, Off, PortLabel, ProxyApplyLabel, GuiSetLabel
    <2> QED
      BY <1>6, <2>1, <2>2
  <1>7. ASSUME ProxyBackground, UNCHANGED callVars
        PROVE  Aloof
    <2>1. kind' = kind /\ \A q \in Request : Off(q)
      BY <1>7 DEF callVars, Off
    <2> QED
      BY <1>7, <2>1 DEF ProxyBackground, Watch, WatchCheck, WatchRead, WatchStore, NotStore, Issue
  <1>8. ASSUME Crash, NEW reboot \in BOOLEAN, ProxyRestart(reboot)
        PROVE  UNCHANGED <<site, portFile, sites, ports, passed>>
    BY <1>8 DEF ProxyRestart
  <1>9. ASSUME NEW r \in Request, ProxyStep(r)
        PROVE  \E q \in Request : ProxyStep(q) /\ Goes(q)
    BY <1>9, ProxyGoes
  <1>10. ASSUME NEW r \in Request, Begin(r) \/ Fails(r),
                UNCHANGED <<nameVars, proxyVars, serviceVars>>
         PROVE  Aloof
    BY <1>3, <1>6, <1>10
  <1> HIDE DEF Aloof
  <1>11. \/ \E r \in Request : ProxyStep(r) /\ Goes(r)
         \/ Aloof
         \/ Crash /\ UNCHANGED <<site, portFile, sites, ports, passed>>
         \/ UNCHANGED vars
    BY <1>4, <1>5, <1>7, <1>8, <1>9, <1>10 DEF Next
  <1> QED
    BY <1>1, <1>11 DEF Aloof

(* What was cut short or passed over once stays so.                        *)
LEMMA WholeStays ==
  ASSUME CallsInv, [Next]_vars, Whole'
  PROVE  Whole
  <1>1. ASSUME NEW r \in Request, Goes(r) PROVE Whole
    BY <1>1 DEF Goes, Whole, CallsInv, Active, Over
  <1>2. ASSUME NEW r \in Request, Begin(r) PROVE Whole
    BY <1>2 DEF Begin, Whole, CallsInv
  <1>3. CASE UNCHANGED callVars
    BY <1>3 DEF Whole, callVars
  <1>4. CASE Crash
    BY <1>4, CallsAssumption DEF Crash, Whole, Active
  <1> QED
    BY <1>1, <1>2, <1>3, <1>4, NamesGoes, ProxyGoes, ServicesGoes, FailGoes DEF Next, vars

(* What was passed over stays noted. *)
LEMMA PassedStays ==
  ASSUME NEW r \in Request, ProxyStep(r)
  PROVE  passed \subseteq passed'
  BY DEF ProxyStep, SiteCreate, SiteUpdate, SiteDelete, OnlySite, InstallPackage, InstallStop,
         InstallWrite, WriteAcme, SyncRead, SyncCommit, SyncReload, LoadCert, StoreCert,
         NotStore, ApplyRead, ApplyReady, OnlySites, WipeLinks, LinkCert, ApplyWrite,
         ApplyStop, ApplyRestart, OnlyProxy, PortsRead, PortsCommit, PortsReload, GuiSetting,
         GuiIssue, AcmeIssueRead, Renew, AcmeIssueLinked, PassOver, proxyVars

(* Nothing is in hand at first. *)
LEMMA ProxyInvInit == Init => ProxyInv
  <1> SUFFICES ASSUME NEW s \in Scenario, CallsInit(s), ProxyInit(s) PROVE ProxyInv
    BY DEF Init
  <1>1. /\ site \in [Host -> SiteRow \cup {None}] /\ portFile \subseteq {"rp", "gui"}
    BY ProxyAssumption DEF ProxyInit
  <1>2. sites \in [Request -> SitesType] /\ ports \in [Request -> SUBSET {"rp", "gui"}]
    BY DEF ProxyInit, SitesType
  <1>3. \A r \in Request : at[r] = "new"
    BY DEF CallsInit
  <1> QED
    BY <1>1, <1>2, <1>3 DEF ProxyInv, ProxyApplyLabel, GuiSetLabel

(* The enabled sites, none of which linkCerts has come to yet.             *)
LEMMA EnabledType ==
  ASSUME ProxyInv
  PROVE  Unlinked(Enabled) \in SitesType
  <1>1. Enabled \subseteq Host \X BOOLEAN
    BY DEF ProxyInv, Enabled, Sites, SiteRow
  <1>2. ASSUME NEW s \in Enabled
        PROVE  <<s[1], s[2], FALSE>> \in Host \X BOOLEAN \X BOOLEAN
    <2>1. s[1] \in Host /\ s[2] \in BOOLEAN
      BY <1>1
    <2> QED
      BY <2>1
  <1> QED
    BY <1>2 DEF SitesType, Unlinked

(* What is held keeps its type where linkCerts has come to one more, and   *)
(* where the links were looked at.                                         *)
LEMMA LinkType ==
  ASSUME NEW t \in SitesType
  PROVE  /\ \A s \in t : (t \ {s}) \cup {<<s[1], s[2], TRUE>>} \in SitesType
         /\ {<<s[1], s[2], s[1] \in links>> : s \in t} \in SitesType
  <1>1. ASSUME NEW s \in t, NEW b \in BOOLEAN
        PROVE  <<s[1], s[2], b>> \in Host \X BOOLEAN \X BOOLEAN
    <2>1. s[1] \in Host /\ s[2] \in BOOLEAN
      BY DEF SitesType
    <2> QED
      BY <2>1
  <1>2. ASSUME NEW s \in t
        PROVE  <<s[1], s[2], s[1] \in links>> \in Host \X BOOLEAN \X BOOLEAN
    <2>1. (s[1] \in links) \in BOOLEAN
      OBVIOUS
    <2> QED
      BY <1>1, <2>1
  <1> QED
    BY <1>1, <1>2 DEF SitesType

(* Each handler of the sites goes along its own labels.                    *)
LEMMA ProxyPath ==
  ASSUME CallsInv, ProxyInv, NEW r \in Request, ProxyStep(r)
  PROVE  /\ kind[r] = "proxyApply" => at'[r] \in ProxyApplyLabel
         /\ kind[r] = "guiSet" => at'[r] \in GuiSetLabel
         /\ sites' \in [Request -> SitesType] /\ ports' \in [Request -> SUBSET {"rp", "gui"}]
         /\ portFile' \subseteq {"rp", "gui"}
         /\ site' \in [Host -> SiteRow \cup {None}]
  <1> DEFINE Fits == /\ kind[r] = "proxyApply" => at'[r] \in ProxyApplyLabel
                     /\ kind[r] = "guiSet" => at'[r] \in GuiSetLabel
             Typed == /\ sites' \in [Request -> SitesType]
                      /\ ports' \in [Request -> SUBSET {"rp", "gui"}]
                      /\ portFile' \subseteq {"rp", "gui"}
                      /\ site' \in [Host -> SiteRow \cup {None}]
  <1>0. /\ at \in [Request -> Label]
        /\ kind[r] = "proxyApply" => at[r] \in ProxyApplyLabel
        /\ kind[r] = "guiSet" => at[r] \in GuiSetLabel
        /\ sites \in [Request -> SitesType] /\ ports \in [Request -> SUBSET {"rp", "gui"}]
        /\ portFile \subseteq {"rp", "gui"} /\ site \in [Host -> SiteRow \cup {None}]
    BY DEF CallsInv, ProxyInv
  <1>1. CASE SiteCreate(r) \/ SiteUpdate(r) \/ SiteDelete(r)
    <2>1. Fits /\ UNCHANGED <<sites, ports, portFile>>
      BY <1>0, <1>1 DEF SiteCreate, SiteUpdate, SiteDelete, Step, OnlySite, portVars
    <2>2. site' \in [Host -> SiteRow \cup {None}]
      <3>1. CASE SiteCreate(r) \/ SiteDelete(r)
        BY <1>0, <3>1 DEF SiteCreate, SiteDelete, Sites
      <3>2. CASE SiteUpdate(r)
        <4>1. PICK h \in Sites, row \in SiteRow : \E g \in (Host \ Sites) \cup {h} :
                 site' = [[site EXCEPT ![h] = None] EXCEPT ![g] = row]
          BY <3>2 DEF SiteUpdate
        <4>2. [site EXCEPT ![h] = None] \in [Host -> SiteRow \cup {None}]
          BY <1>0
        <4> QED
          BY <4>1, <4>2
      <3> QED
        BY <1>1, <3>1, <3>2
    <2> QED
      BY <1>0, <2>1, <2>2
  <1>2. CASE InstallPackage(r) \/ InstallStop(r) \/ InstallWrite(r)
    BY <1>0, <1>2 DEF InstallPackage, InstallStop, InstallWrite, Step, portVars
  <1>3. CASE WriteAcme(r)
    BY <1>0, <1>3 DEF WriteAcme, Steps, Step, After, portVars, ProxyApplyLabel, GuiSetLabel
  <1>4. CASE SyncRead(r) \/ SyncCommit(r) \/ SyncReload(r)
    <2>1. Fits
      BY <1>0, <1>4 DEF SyncRead, SyncCommit, SyncReload, Steps, Step, After,
                        ProxyApplyLabel, GuiSetLabel
    <2>2. Typed
      BY <1>0, <1>4 DEF SyncRead, SyncCommit, SyncReload, OnlyPorts
    <2> QED
      BY <2>1, <2>2
  <1>5. CASE LoadCert(r) \/ StoreCert(r)
    BY <1>0, <1>5 DEF LoadCert, StoreCert, Steps, Step, NotStore, portVars,
                      ProxyApplyLabel, GuiSetLabel
  <1>6. CASE ApplyRead(r) \/ ApplyReady(r)
    <2>1. Fits /\ UNCHANGED <<site, ports, portFile>>
      BY <1>0, <1>6 DEF ApplyRead, ApplyReady, OnlySites, Step, portVars, ProxyApplyLabel
    <2>2. PICK t \in SitesType : sites' = [sites EXCEPT ![r] = t]
      <3>1. CASE ApplyRead(r)
        BY <3>1, EnabledType DEF ApplyRead
      <3>2. CASE ApplyReady(r)
        <4>1. {<<s[1], s[2], s[1] \in links>> : s \in sites[r]} \in SitesType
          BY <1>0, LinkType
        <4> QED
          BY <3>2, <4>1 DEF ApplyReady
      <3> QED
        BY <1>6, <3>1, <3>2
    <2> QED
      BY <1>0, <2>1, <2>2
  <1>7. CASE ApplyWrite(r) \/ ApplyStop(r) \/ ApplyRestart(r)
    BY <1>0, <1>7 DEF ApplyWrite, ApplyStop, ApplyRestart, OnlyProxy, Step, portVars,
                      ProxyApplyLabel
  <1>8. CASE PortsRead(r) \/ PortsCommit(r) \/ PortsReload(r)
    <2>1. Fits
      BY <1>0, <1>8 DEF PortsRead, PortsCommit, PortsReload, Step, ProxyApplyLabel
    <2>2. Typed
      BY <1>0, <1>8 DEF PortsRead, PortsCommit, PortsReload, OnlyPorts
    <2> QED
      BY <2>1, <2>2
  <1>9. CASE GuiSetting(r) \/ GuiIssue(r) \/ Renew(r) \/ AcmeIssueLinked(r)
    BY <1>0, <1>9 DEF GuiSetting, GuiIssue, Renew, AcmeIssueLinked, Steps, Step, portVars,
                      proxyVars, GuiSetLabel
  <1>10. CASE AcmeIssueRead(r)
    <2>1. Fits /\ UNCHANGED <<site, ports, portFile>>
      BY <1>0, <1>10 DEF AcmeIssueRead, OnlySites, Step, portVars
    <2>2. sites' \in [Request -> SitesType]
      BY <1>0, <1>10, EnabledType DEF AcmeIssueRead
    <2> QED
      BY <1>0, <2>1, <2>2
  <1>11. CASE PassOver(r)
    <2>1. Fits
      BY <1>0, <1>11 DEF PassOver, PassedOver, Steps, Step, After, ProxyApplyLabel, GuiSetLabel
    <2>2. Typed
      BY <1>0, <1>11 DEF PassOver, OnlyPorts, portVars
    <2> QED
      BY <2>1, <2>2
  <1>12. CASE WipeLinks(r)
    BY <1>0, <1>12 DEF WipeLinks, Steps, Step, portVars, ProxyApplyLabel
  <1>13. CASE LinkCert(r)
    <2>1. Fits /\ UNCHANGED <<site, ports, portFile>>
      BY <1>0, <1>13 DEF LinkCert, Steps, Step, portVars, ProxyApplyLabel
    <2>2. PICK s \in sites[r] :
             sites' = [sites EXCEPT ![r] = (@ \ {s}) \cup {<<s[1], s[2], TRUE>>}]
      BY <1>13 DEF LinkCert, ToLink
    <2>3. (sites[r] \ {s}) \cup {<<s[1], s[2], TRUE>>} \in SitesType
      BY <1>0, LinkType
    <2> QED
      BY <1>0, <2>1, <2>2, <2>3
  <1> QED
    BY <1>1, <1>2, <1>3, <1>4, <1>5, <1>6, <1>7, <1>8, <1>9, <1>10, <1>11, <1>12, <1>13
       DEF ProxyStep

(* ProxyInv is inductive. *)
LEMMA ProxyInvStep ==
  ASSUME CallsInv, ProxyInv, [Next]_vars
  PROVE  ProxyInv'
  <1>1. ASSUME NEW r \in Request, ProxyStep(r), Goes(r) PROVE ProxyInv'
    BY <1>1, ProxyPath DEF ProxyInv, Goes, CallsInv
  <1>2. ASSUME \A q \in Request : Off(q), kind' = kind,
               UNCHANGED <<site, portVars, sites>>
        PROVE  ProxyInv'
    BY <1>2 DEF ProxyInv, Off, portVars, ProxyApplyLabel, GuiSetLabel
  <1>3. ASSUME Crash, UNCHANGED <<site, portFile, sites, ports>>
        PROVE  ProxyInv'
    BY <1>3 DEF Crash, ProxyInv, ProxyApplyLabel, GuiSetLabel
  <1> QED
    BY <1>1, <1>2, <1>3, ProxyOrOff

(* What an apply of the sites has read: the enabled sites.                 *)
RowsTaken(r) ==
  /\ sites[r] \subseteq Host \X BOOLEAN \X BOOLEAN
  /\ {<<s[1], s[2]>> : s \in sites[r]} = Enabled

(* And which have a certificate; those that want theirs have a link to it. *)
RowsRead(r) ==
  RowsTaken(r) /\ links = {s[1] : s \in {s \in sites[r] : s[2] /\ s[3]}}

(* The labels after the sites have been loaded. *)
PortSteps == {"ports", "portsCommit", "portsReload", "sync", "syncCommit",
              "syncReload"}

(* How far an apply has brought them: read, written, run.                  *)
SiteFits(r) ==
  kind[r] = "proxyApply" =>
    /\ at[r] \in {"wipe", "link"} => RowsTaken(r)
    /\ at[r] = "link" => links \subseteq AcmeHosts(sites[r])
    /\ at[r] \in {"acme", "write", "stop", "restart"} \cup PortSteps => RowsRead(r)
    /\ at[r] = "stop" => sites[r] = {}
    /\ at[r] = "restart" => sites[r] # {}
    /\ at[r] \in {"stop", "restart"} \cup PortSteps =>
         proxyFile = BuildConfig(sites[r])
    /\ at[r] \in PortSteps =>
         IF sites[r] = {} THEN proxyRun = None ELSE proxyRun = proxyFile /\ onBoot

(* As long as no step was passed over. *)
SiteInv == passed = {} => \A r \in alone : SiteFits(r)

(* What SitesAreServed says of a step.                                     *)
SitesAreServedStep ==
  \A r \in Request :
       Finishes(r, "proxyApply") /\ passed' = {} =>
         /\ Enabled # {} => proxyRun' = proxyFile /\ onBoot
         /\ Enabled = {} => proxyRun' = None
         /\ AcmeHosts(proxyFile) \subseteq links
         /\ \A h \in Host : <<h, FALSE>> \in Enabled => <<h, FALSE>> \in proxyFile

(* Nobody is alone at first. *)
LEMMA SiteInvInit == Init => SiteInv
  BY DEF Init, CallsInit, SiteInv

(* The enabled sites are read. *)
LEMMA ReadTakes ==
  ASSUME CallsInv, ProxyInv, NEW r \in Request, ApplyRead(r)
  PROVE  RowsTaken(r)'
  <1>1. Enabled \subseteq Host \X BOOLEAN /\ Unlinked(Enabled) \in SitesType
    BY EnabledType DEF ProxyInv, Enabled, Sites, SiteRow
  <1>2. Enabled' = Enabled
    BY DEF ApplyRead, OnlySites, Enabled, Sites
  <1>3. sites'[r] = Unlinked(Enabled)
    BY DEF ApplyRead, ProxyInv
  <1>4. ASSUME NEW s \in Enabled PROVE s \in {<<u[1], u[2]>> : u \in Unlinked(Enabled)}
    <2>1. <<s[1], s[2], FALSE>> \in Unlinked(Enabled) /\ s = <<s[1], s[2]>>
      BY <1>1 DEF Unlinked
    <2> QED
      BY <2>1
  <1>5. ASSUME NEW u \in Unlinked(Enabled) PROVE <<u[1], u[2]>> \in Enabled
    <2>1. PICK s \in Enabled : u = <<s[1], s[2], FALSE>>
      BY DEF Unlinked
    <2>2. <<u[1], u[2]>> = s
      BY <1>1, <2>1
    <2> QED
      BY <2>2
  <1>6. {<<u[1], u[2]>> : u \in Unlinked(Enabled)} = Enabled
    BY <1>4, <1>5
  <1> QED
    BY <1>1, <1>2, <1>3, <1>6 DEF RowsTaken, SitesType

(* One more link is to the certificate of a site that has been read.       *)
LEMMA LinkTakes ==
  ASSUME ProxyInv, NEW r \in Request, LinkCert(r), RowsTaken(r),
         links \subseteq AcmeHosts(sites[r])
  PROVE  RowsTaken(r)' /\ links' \subseteq AcmeHosts(sites'[r])
  <1>1. PICK s \in sites[r] :
           /\ s[2] /\ links' \subseteq links \cup {s[1]}
           /\ sites' = [sites EXCEPT ![r] = (@ \ {s}) \cup {<<s[1], s[2], TRUE>>}]
    BY DEF LinkCert, ToLink
  <1> DEFINE u == <<s[1], s[2], TRUE>>
             t == (sites[r] \ {s}) \cup {u}
  <1>2. /\ sites'[r] = t /\ sites[r] \in SitesType /\ t \in SitesType
        /\ u[1] = s[1] /\ u[2] = s[2]
    BY <1>1, LinkType DEF ProxyInv
  <1>3. Enabled' = Enabled
    BY DEF LinkCert, Enabled, Sites
  <1> HIDE DEF u
  <1>4. {<<v[1], v[2]>> : v \in t} = {<<v[1], v[2]>> : v \in sites[r]}
    BY <1>1, <1>2
  <1>5. AcmeHosts(sites[r]) \subseteq AcmeHosts(t) /\ s[1] \in AcmeHosts(t)
    BY <1>1, <1>2 DEF AcmeHosts
  <1> HIDE DEF t
  <1> QED
    BY <1>1, <1>2, <1>3, <1>4, <1>5 DEF RowsTaken, SitesType

(* Those whose links are there are ready. *)
LEMMA ReadyReads ==
  ASSUME ProxyInv, NEW r \in Request, ApplyReady(r), RowsTaken(r),
         links \subseteq AcmeHosts(sites[r])
  PROVE  RowsRead(r)'
  <1> DEFINE t == {<<s[1], s[2], s[1] \in links>> : s \in sites[r]}
  <1>1. /\ sites'[r] = t /\ t \in SitesType /\ sites[r] \in SitesType /\ links' = links
    BY LinkType DEF ApplyReady, OnlySites, ProxyInv
  <1>2. Enabled' = Enabled
    BY DEF ApplyReady, OnlySites, Enabled, Sites
  <1>3. ASSUME NEW s \in sites[r]
        PROVE  \E u \in t : u[1] = s[1] /\ u[2] = s[2] /\ (u[3] <=> s[1] \in links)
    <2> DEFINE u == <<s[1], s[2], s[1] \in links>>
    <2>1. u \in t /\ u[1] = s[1] /\ u[2] = s[2] /\ (u[3] <=> s[1] \in links)
      OBVIOUS
    <2> HIDE DEF u
    <2> QED
      BY <2>1
  <1>4. ASSUME NEW u \in t
        PROVE  \E s \in sites[r] : u[1] = s[1] /\ u[2] = s[2] /\ (u[3] <=> s[1] \in links)
    <2>1. PICK s \in sites[r] : u = <<s[1], s[2], s[1] \in links>>
      OBVIOUS
    <2>2. u[1] = s[1] /\ u[2] = s[2] /\ (u[3] <=> s[1] \in links)
      BY <2>1
    <2> QED
      BY <2>2
  <1> HIDE DEF t
  <1>5. {<<u[1], u[2]>> : u \in t} = {<<s[1], s[2]>> : s \in sites[r]}
    BY <1>3, <1>4
  <1>6. ASSUME NEW h \in links PROVE h \in {u[1] : u \in {u \in t : u[2] /\ u[3]}}
    <2>1. PICK s \in sites[r] : s[2] /\ s[1] = h
      BY <1>6 DEF AcmeHosts
    <2> QED
      BY <1>3, <1>6, <2>1
  <1>7. ASSUME NEW u \in t, u[2] /\ u[3] PROVE u[1] \in links
    BY <1>4, <1>7
  <1> QED
    BY <1>1, <1>2, <1>5, <1>6, <1>7 DEF RowsRead, RowsTaken, SitesType

(* A step of an apply that is alone, none of whose steps was passed over.  *)
LEMMA SiteStep ==
  ASSUME CallsInv, ProxyInv, NEW r \in Request, Goes(r), ProxyStep(r),
         SiteFits(r), passed' = {}
  PROVE  SiteFits(r)'
  <1>0. /\ kind' = kind /\ at \in [Request -> Label]
        /\ kind[r] = "proxyApply" => at[r] \in ProxyApplyLabel
        /\ sites \in [Request -> SitesType]
    BY DEF Goes, CallsInv, ProxyInv
  <1> SUFFICES ASSUME kind[r] = "proxyApply" PROVE SiteFits(r)'
    BY <1>0 DEF SiteFits
  <1>1. ASSUME UNCHANGED <<sites, site, links>> PROVE RowsRead(r)' = RowsRead(r)
    BY <1>1 DEF RowsRead, RowsTaken, Enabled, Sites
  <1>2. CASE ApplyRead(r)
    <2>1. at'[r] = "wipe"
      BY <1>0, <1>2 DEF ApplyRead, Step
    <2> QED
      BY <1>2, <2>1, ReadTakes DEF SiteFits, PortSteps
  <1>12. CASE WipeLinks(r)
    <2>1. at[r] = "wipe" /\ at'[r] = "link" /\ links' = {} /\ UNCHANGED <<sites, site>>
      BY <1>0, <1>12 DEF WipeLinks, Steps, Step
    <2>2. RowsTaken(r)'
      BY <2>1 DEF SiteFits, RowsTaken, Enabled, Sites
    <2> QED
      BY <2>1, <2>2 DEF SiteFits, PortSteps
  <1>13. CASE LinkCert(r)
    <2>1. at[r] = "link" /\ at'[r] = "link"
      BY <1>0, <1>13 DEF LinkCert, Steps, Step
    <2> QED
      BY <1>13, <2>1, LinkTakes DEF SiteFits, PortSteps
  <1>14. CASE ApplyReady(r)
    <2>1. at[r] = "link" /\ at'[r] = "acme"
      BY <1>0, <1>14 DEF ApplyReady, Step
    <2> QED
      BY <1>14, <2>1, ReadyReads DEF SiteFits, PortSteps
  <1>3. CASE WriteAcme(r)
    <2>1. /\ at[r] = "acme" /\ at'[r] = "write" /\ UNCHANGED <<sites, site, links>>
      BY <1>0, <1>3 DEF WriteAcme, Steps, Step, After
    <2> QED
      BY <1>1, <2>1 DEF SiteFits, PortSteps
  <1>4. CASE ApplyWrite(r)
    <2>1. /\ at[r] = "write" /\ at'[r] = (IF sites[r] = {} THEN "stop" ELSE "restart")
          /\ proxyFile' = BuildConfig(sites[r]) /\ UNCHANGED <<sites, site, links>>
      BY <1>0, <1>4 DEF ApplyWrite, Step
    <2> QED
      BY <1>1, <2>1 DEF SiteFits, PortSteps
  <1>5. CASE ApplyStop(r)
    <2>1. /\ at[r] = "stop" /\ at'[r] = "ports" /\ UNCHANGED <<sites, site, links, proxyFile>>
          /\ proxyRun' = None
      BY <1>0, <1>5 DEF ApplyStop, OnlyProxy, Step
    <2> QED
      BY <1>1, <2>1 DEF SiteFits, PortSteps
  <1>6. CASE ApplyRestart(r)
    <2>1. /\ at[r] = "restart" /\ at'[r] = "ports" /\ UNCHANGED <<sites, site, links, proxyFile>>
          /\ proxyRun' = proxyFile /\ onBoot'
      BY <1>0, <1>6 DEF ApplyRestart, OnlyProxy, Step
    <2> QED
      BY <1>1, <2>1 DEF SiteFits, PortSteps
  <1>7. ASSUME at[r] \in PortSteps, at'[r] \in PortSteps \cup {"done"},
               UNCHANGED <<sites, site, links, packageVars>>
        PROVE  SiteFits(r)'
    BY <1>1, <1>7 DEF SiteFits, PortSteps, packageVars
  <1>8. CASE PortsRead(r) \/ PortsCommit(r) \/ PortsReload(r)
    <2>1. /\ at[r] \in PortSteps /\ at'[r] \in PortSteps
          /\ UNCHANGED <<sites, site, links, packageVars>>
      BY <1>0, <1>8 DEF PortsRead, PortsCommit, PortsReload, Step, OnlyPorts, PortSteps
    <2> QED
      BY <1>7, <2>1
  <1>9. CASE SyncRead(r) \/ SyncCommit(r) \/ SyncReload(r)
    <2>1. /\ at[r] \in PortSteps /\ at'[r] \in PortSteps \cup {"done"}
          /\ UNCHANGED <<sites, site, links, packageVars>>
      BY <1>0, <1>9 DEF SyncRead, SyncCommit, SyncReload, Steps, Step, After, OnlyPorts, PortSteps
    <2> QED
      BY <1>7, <2>1
  <1>10. ~PassOver(r)
    BY DEF PassOver
  <1>11. ~(LoadCert(r) \/ StoreCert(r) \/ Renew(r))
    BY <1>0 DEF LoadCert, StoreCert, Renew, Steps, Step, ProxyApplyLabel
  <1> QED
    BY <1>2, <1>3, <1>4, <1>5, <1>6, <1>8, <1>9, <1>10, <1>11, <1>12, <1>13, <1>14
       DEF ProxyStep, Step, SiteCreate, SiteUpdate, SiteDelete, InstallPackage, InstallStop,
           InstallWrite, GuiSetting, GuiIssue, AcmeIssueRead, AcmeIssueLinked

(* SiteInv is inductive. *)
LEMMA SiteInvStep ==
  ASSUME CallsInv, ProxyInv, SiteInv, [Next]_vars
  PROVE  SiteInv'
  <1>1. ASSUME NEW r \in Request, ProxyStep(r), Goes(r), passed' = {}, NEW q \in alone'
        PROVE  SiteFits(q)'
    <2>1. /\ alone' = alone /\ alone \subseteq Request /\ Active(r)
          /\ \A p \in Request \ {r} : at'[p] = at[p]
      BY <1>1 DEF Goes, CallsInv
    <2>2. passed = {}
      BY <1>1, PassedStays
    <2>3. CASE q = r
      BY <1>1, <2>1, <2>2, <2>3, SiteStep DEF SiteInv
    <2>4. CASE q # r
      <3>1. at'[q] \in {"new", "done", "failed"}
        BY <2>1, <2>4 DEF CallsInv, Active, Over
      <3> QED
        BY <3>1 DEF SiteFits, PortSteps
    <2> QED
      BY <2>3, <2>4
  <1>2. ASSUME \A q \in Request : Off(q), kind' = kind,
               UNCHANGED <<site, links, packageVars, sites, passed>>,
               passed' = {}, NEW q \in alone'
        PROVE  SiteFits(q)'
    <2>1. q \in Request
      BY CallsInvStep DEF CallsInv
    <2>2. q \in alone \/ at'[q] = "start"
      BY BecomesAlone
    <2>3. kind[q] = "proxyApply" => at'[q] \in {at[q], "start", "failed"}
      BY <1>2, <2>1 DEF Off, ProxyInv
    <2>4. CASE at'[q] \in {"start", "failed"}
      BY <2>4 DEF SiteFits, PortSteps
    <2>5. CASE q \in alone /\ at'[q] = at[q]
      <3>1. SiteFits(q)
        BY <1>2, <2>5 DEF SiteInv
      <3> QED
        BY <1>2, <2>5, <3>1 DEF SiteFits, RowsRead, RowsTaken, Enabled, Sites, packageVars
    <2>6. CASE kind[q] # "proxyApply"
      BY <1>2, <2>6 DEF SiteFits
    <2> QED
      BY <2>2, <2>3, <2>4, <2>5, <2>6
  <1>3. ASSUME Crash, NEW q \in alone'
        PROVE  SiteFits(q)'
    <2>1. at'[q] \in {"new", "done", "failed"}
      BY <1>3 DEF Crash, Active, Over, CallsInv
    <2> QED
      BY <2>1 DEF SiteFits, PortSteps
  <1> QED
    BY <1>1, <1>2, <1>3, ProxyOrOff DEF SiteInv, portVars

(* An apply of the sites ends with the sync of port 80.                    *)
LEMMA SitesDone ==
  ASSUME CallsInv, ProxyInv, [Next]_vars, NEW r \in Request,
         Finishes(r, "proxyApply"), passed' = {}
  PROVE  /\ at[r] \in {"sync", "syncReload"} /\ passed = {}
         /\ SyncRead(r) \/ SyncReload(r)
  <1>1. /\ kind[r] = "proxyApply" /\ at[r] # "done" /\ at'[r] = "done" /\ r \in alone
        /\ at[r] \in ProxyApplyLabel /\ at \in [Request -> Label]
    BY DEF Finishes, ProxyInv, CallsInv
  <1>2. ~Off(r)
    BY <1>1 DEF Off
  <1>3. ~Crash
    BY <1>1 DEF Crash, CallsInv
  <1>4. PICK q \in Request : ProxyStep(q) /\ Goes(q)
    BY <1>2, <1>3, ProxyOrOff
  <1>5. q = r
    BY <1>1, <1>4 DEF Goes, CallsInv
  <1>6. passed = {} /\ ~PassOver(r)
    BY <1>4, <1>5, PassedStays DEF PassOver
  <1>7. ~(WriteAcme(r) \/ SyncCommit(r) \/ LoadCert(r) \/ StoreCert(r) \/ Renew(r))
    BY <1>1 DEF WriteAcme, SyncCommit, LoadCert, StoreCert, Renew, Steps, Step, After, ProxyApplyLabel
  <1>8. ~(\/ WipeLinks(r) \/ LinkCert(r) \/ ApplyRead(r) \/ ApplyReady(r) \/ ApplyWrite(r)
          \/ ApplyStop(r) \/ ApplyRestart(r))
    BY <1>1 DEF WipeLinks, LinkCert, ApplyRead, ApplyReady, ApplyWrite, ApplyStop,
                ApplyRestart, Steps, Step
  <1>9. ~(PortsRead(r) \/ PortsCommit(r) \/ PortsReload(r))
    BY <1>1 DEF PortsRead, PortsCommit, PortsReload, Step
  <1>10. SyncRead(r) \/ SyncReload(r)
    BY <1>1, <1>4, <1>5, <1>6, <1>7, <1>8, <1>9
       DEF ProxyStep, Step, SiteCreate, SiteUpdate, SiteDelete, InstallPackage, InstallStop,
           InstallWrite, GuiSetting, GuiIssue, AcmeIssueRead, AcmeIssueLinked
  <1> QED
    BY <1>6, <1>10 DEF SyncRead, SyncReload, Steps, Step

(* What SitesAreServed says of a step. *)
LEMMA ServedStep ==
  ASSUME CallsInv, ProxyInv, SiteInv, [Next]_vars
  PROVE  SitesAreServedStep
  <1> SUFFICES ASSUME NEW r \in Request, Finishes(r, "proxyApply"), passed' = {}
               PROVE  /\ Enabled # {} => proxyRun' = proxyFile /\ onBoot
                      /\ Enabled = {} => proxyRun' = None
                      /\ AcmeHosts(proxyFile) \subseteq links
                      /\ \A h \in Host : <<h, FALSE>> \in Enabled => <<h, FALSE>> \in proxyFile
    BY DEF SitesAreServedStep
  <1>1. /\ at[r] \in PortSteps /\ passed = {} /\ proxyRun' = proxyRun
        /\ kind[r] = "proxyApply" /\ r \in alone
    BY SitesDone DEF PortSteps, SyncRead, SyncReload, OnlyPorts, packageVars, Finishes
  <1>2. /\ RowsRead(r) /\ proxyFile = BuildConfig(sites[r])
        /\ IF sites[r] = {} THEN proxyRun = None ELSE proxyRun = proxyFile /\ onBoot
    BY <1>1 DEF SiteInv, SiteFits
  <1>3. Enabled = {} <=> sites[r] = {}
    BY <1>2 DEF RowsRead, RowsTaken
  <1>4. ASSUME NEW e \in proxyFile, e[2] PROVE e[1] \in links
    <2>1. PICK s \in sites[r] : e = <<s[1], s[2]>> /\ (s[2] => s[3])
      BY <1>2 DEF BuildConfig
    <2> QED
      BY <1>2, <1>4, <2>1 DEF RowsRead
  <1>5. ASSUME NEW h \in Host, <<h, FALSE>> \in Enabled PROVE <<h, FALSE>> \in proxyFile
    <2>1. PICK s \in sites[r] : <<h, FALSE>> = <<s[1], s[2]>>
      BY <1>2, <1>5 DEF RowsRead, RowsTaken
    <2>2. s[1] = h /\ s[2] = FALSE
      BY <2>1
    <2> QED
      BY <1>2, <2>1, <2>2 DEF BuildConfig
  <1> QED
    BY <1>1, <1>2, <1>3, <1>4, <1>5 DEF AcmeHosts

(* After an apply of the sites beside which no other request ran, and none *)
(* of whose steps was passed over, HAProxy runs the enabled sites, starts  *)
(* with them at boot, and has a certificate for each whose TLS the device  *)
(* opens, whatever failed, overlapped or was issued before                 *)
(* (handleProxyApply, core/proxy.go).                                      *)
THEOREM SitesAreAlwaysServed == Spec => SitesAreServed
  <1> DEFINE Inv == CallsInv /\ ProxyInv /\ SiteInv
  <1>1. Init => Inv
    BY CallsInvInit, ProxyInvInit, SiteInvInit
  <1>2. Inv /\ [Next]_vars => Inv'
    BY CallsInvStep, ProxyInvStep, SiteInvStep
  <1>3. Inv /\ [Next]_vars => [SitesAreServedStep]_vars
    BY ServedStep
  <1> HIDE DEF Inv
  <1>4. Spec => [][SitesAreServedStep]_vars
    BY <1>1, <1>2, <1>3, PTL DEF Spec
  <1> QED
    BY <1>4, PTL DEF SitesAreServed, SitesAreServedStep

(* Port 80 is where the proxy and the name of the interface want it.       *)
Settled == Wants(portFile) = ("gui" \in portFile)

(* What a request has done to port 80 so far.                              *)
PortFits(r) ==
  /\ at[r] = "syncCommit" => ports[r] = portFile /\ ~Settled
  /\ at[r] = "syncReload" => Settled
  /\ kind[r] = "guiSet" /\ at[r] \in {"acme", "load", "store"} => Settled
  /\ kind[r] = "proxyApply" /\ at[r] \in {"portsReload", "sync", "syncCommit", "syncReload"} =>
       ("rp" \in portFile) = (sites[r] # {})

(* As long as requests come one at a time and nothing was cut short or     *)
(* passed over, the firewall has what the file says, but between a commit  *)
(* and the reload after it.                                                *)
PortInv ==
  Whole /\ InTurn /\ passed = {} =>
    /\ (\A r \in Request : at[r] \notin {"portsReload", "syncReload"}) =>
          portRun = portFile
    /\ \A r \in Request : PortFits(r)

(* What PortHasOneOwner says of a step.                                    *)
PortHasOneOwnerStep ==
  \A r \in Request :
       /\ Finishes(r, "proxyApply") \/ Finishes(r, "guiSet")
       /\ Whole /\ InTurn /\ passed' = {}
       => /\ portRun' = IF "rp" \in portFile THEN {"rp"}
                        ELSE IF guiHost # None THEN {"gui"} ELSE {}
          /\ Finishes(r, "proxyApply") =>
               ("rp" \in portFile) = (Enabled # {})

(* Nobody wants port 80 at first but who has it. *)
LEMMA PortInvInit == Init => PortInv
  <1> SUFFICES ASSUME NEW s \in Scenario, CallsInit(s), ProxyInit(s) PROVE PortInv
    BY DEF Init
  <1>1. portRun = portFile /\ \A r \in Request : at[r] = "new"
    BY DEF ProxyInit, CallsInit
  <1> QED
    BY <1>1 DEF PortInv, PortFits

(* A step of the only request there is.                                    *)
LEMMA PortStep ==
  ASSUME CallsInv, ProxyInv, NEW r \in Request, Goes(r), ProxyStep(r),
         PortFits(r), at[r] \notin {"portsReload", "syncReload"} => portRun = portFile,
         passed' = {}
  PROVE  /\ PortFits(r)'
         /\ at'[r] \notin {"portsReload", "syncReload"} => portRun' = portFile'
  <1> DEFINE Runs == at'[r] \notin {"portsReload", "syncReload"} => portRun' = portFile'
  <1>0. /\ kind' = kind /\ at \in [Request -> Label]
        /\ kind[r] = "proxyApply" => at[r] \in ProxyApplyLabel
        /\ kind[r] = "guiSet" => at[r] \in GuiSetLabel
        /\ sites \in [Request -> SitesType] /\ ports \in [Request -> SUBSET {"rp", "gui"}]
        /\ portFile \subseteq {"rp", "gui"}
    BY DEF Goes, CallsInv, ProxyInv
  <1> USE DEF Step, Steps
  <1>1. CASE SyncRead(r)
    <2>1. /\ at[r] = "sync" /\ ports'[r] = portFile
          /\ at'[r] = (IF Settled THEN After(r, "sync") ELSE "syncCommit")
          /\ UNCHANGED <<portFile, portRun, sites, guiHost>>
      BY <1>0, <1>1 DEF SyncRead, OnlyPorts, Settled
    <2>2. UNCHANGED Settled
      BY <2>1 DEF Settled, Wants
    <2> QED
      BY <1>0, <2>1, <2>2 DEF PortFits, After
  <1>2. CASE SyncCommit(r)
    <2>1. /\ at[r] = "syncCommit" /\ at'[r] = "syncReload" /\ ports[r] = portFile
          /\ ~Settled /\ UNCHANGED <<portRun, sites, guiHost>>
          /\ portFile' = IF "gui" \in portFile THEN portFile \ {"gui"}
                                               ELSE portFile \cup {"gui"}
      BY <1>0, <1>2 DEF SyncCommit, OnlyPorts, PortFits
    <2>2. ("rp" \in portFile') = ("rp" \in portFile) /\ Settled'
      BY <2>1 DEF Settled, Wants
    <2> QED
      BY <1>0, <2>1, <2>2 DEF PortFits
  <1>3. CASE SyncReload(r)
    <2>1. /\ at[r] = "syncReload" /\ at'[r] = After(r, "sync") /\ Settled
          /\ portRun' = portFile /\ UNCHANGED <<portFile, sites, guiHost>>
      BY <1>0, <1>3 DEF SyncReload, OnlyPorts, PortFits
    <2>2. Settled'
      BY <2>1 DEF Settled, Wants
    <2> QED
      BY <1>0, <2>1, <2>2 DEF PortFits, After
  <1>4. CASE PortsRead(r)
    <2>1. /\ at[r] = "ports" /\ kind[r] = "proxyApply"
          /\ at'[r] = (IF sites[r] = {} /\ "rp" \notin portFile THEN "sync" ELSE "portsCommit")
          /\ UNCHANGED <<portFile, portRun, sites>>
      BY <1>0, <1>4 DEF PortsRead, OnlyPorts
    <2> QED
      BY <1>0, <2>1 DEF PortFits
  <1>5. CASE PortsCommit(r)
    <2>1. /\ at'[r] = "portsReload" /\ kind[r] = "proxyApply" /\ sites' = sites
          /\ portFile' = IF sites[r] = {} THEN portFile \ {"rp"} ELSE portFile \cup {"rp"}
      BY <1>0, <1>5 DEF PortsCommit, OnlyPorts
    <2> QED
      BY <1>0, <2>1 DEF PortFits
  <1>6. CASE PortsReload(r)
    <2>1. /\ at[r] = "portsReload" /\ at'[r] = "sync" /\ kind[r] = "proxyApply"
          /\ portRun' = portFile /\ UNCHANGED <<portFile, sites>>
      BY <1>0, <1>6 DEF PortsReload, OnlyPorts
    <2> QED
      BY <1>0, <2>1 DEF PortFits
  <1>7. ASSUME at'[r] \notin PortLabel \cup {"sync"}, at[r] \notin {"portsReload", "syncReload"},
               UNCHANGED <<portFile, portRun>>,
               kind[r] = "guiSet" /\ at'[r] \in {"acme", "load", "store"} => Settled'
        PROVE  PortFits(r)' /\ Runs
    BY <1>0, <1>7 DEF PortFits, PortLabel
  <1>8. CASE WriteAcme(r) \/ LoadCert(r) \/ StoreCert(r)
    <2>1. /\ at[r] \in {"acme", "load", "store"} /\ at'[r] \notin PortLabel \cup {"sync"}
          /\ UNCHANGED <<portFile, portRun, guiHost>>
      BY <1>0, <1>8 DEF WriteAcme, LoadCert, StoreCert, After, NotStore, portVars, PortLabel
    <2>2. kind[r] = "guiSet" => Settled'
      BY <2>1 DEF PortFits, Settled, Wants
    <2> QED
      BY <1>7, <2>1, <2>2
  <1>9. CASE GuiSetting(r) \/ GuiIssue(r)
    <2>1. /\ at[r] = "start" /\ at'[r] = "sync" /\ kind[r] # "proxyApply"
          /\ UNCHANGED <<portFile, portRun>>
      BY <1>0, <1>9 DEF GuiSetting, GuiIssue, portVars, proxyVars
    <2> QED
      BY <1>0, <2>1 DEF PortFits
  <1>10. ASSUME kind[r] # "guiSet" \/ at'[r] = "done",
                at[r] \notin {"portsReload", "syncReload"},
                at'[r] \notin PortLabel \cup {"sync"}, UNCHANGED <<portFile, portRun>>
         PROVE  PortFits(r)' /\ Runs
    BY <1>7, <1>10
  <1>11. CASE SiteCreate(r) \/ SiteUpdate(r) \/ SiteDelete(r)
    BY <1>0, <1>10, <1>11 DEF SiteCreate, SiteUpdate, SiteDelete, OnlySite, portVars, PortLabel
  <1>12. CASE InstallPackage(r) \/ InstallStop(r) \/ InstallWrite(r)
    BY <1>0, <1>10, <1>12 DEF InstallPackage, InstallStop, InstallWrite, portVars, PortLabel
  <1>13. CASE \/ WipeLinks(r) \/ LinkCert(r) \/ ApplyRead(r) \/ ApplyReady(r) \/ ApplyWrite(r)
    BY <1>0, <1>10, <1>13 DEF WipeLinks, LinkCert, ApplyRead, ApplyReady, OnlySites, ApplyWrite,
                              portVars, PortLabel
  <1>14. CASE ApplyStop(r) \/ ApplyRestart(r)
    BY <1>0, <1>10, <1>14 DEF ApplyStop, ApplyRestart, OnlyProxy, portVars, PortLabel
  <1>15. CASE AcmeIssueRead(r) \/ Renew(r) \/ AcmeIssueLinked(r)
    BY <1>0, <1>10, <1>15 DEF AcmeIssueRead, OnlySites, Renew, AcmeIssueLinked, portVars,
                              proxyVars, PortLabel
  <1>16. ~PassOver(r)
    BY DEF PassOver
  <1> QED
    BY <1>1, <1>2, <1>3, <1>4, <1>5, <1>6, <1>8, <1>9, <1>11, <1>12, <1>13, <1>14, <1>15, <1>16
       DEF ProxyStep

(* PortInv is inductive. *)
LEMMA PortInvStep ==
  ASSUME CallsInv, ProxyInv, PortInv, [Next]_vars
  PROVE  PortInv'
  <1> SUFFICES ASSUME Whole', InTurn', passed' = {}
               PROVE  /\ (\A r \in Request : at'[r] \notin {"portsReload", "syncReload"}) =>
                            portRun' = portFile'
                      /\ \A r \in Request : PortFits(r)'
    BY DEF PortInv
  <1>0. Whole /\ InTurn
    BY CallsInvStep, WholeStays
  <1>1. ASSUME NEW r \in Request, ProxyStep(r), Goes(r)
        PROVE  /\ at'[r] \notin {"portsReload", "syncReload"} => portRun' = portFile'
               /\ \A q \in Request : PortFits(q)'
    <2>1. /\ Active(r) /\ \A q \in Request \ {r} : at'[q] = at[q]
          /\ at \in [Request -> Label]
      BY <1>1 DEF Goes, CallsInv
    <2>2. ASSUME NEW q \in Request \ {r} PROVE at[q] \in {"new", "done", "failed"}
      BY <1>0, <2>1, OnlyOne DEF Active, Over
    <2>3. passed = {}
      BY <1>1, PassedStays
    <2>4. /\ PortFits(r)
          /\ at[r] \notin {"portsReload", "syncReload"} => portRun = portFile
      BY <1>0, <2>2, <2>3 DEF PortInv
    <2>5. /\ PortFits(r)'
          /\ at'[r] \notin {"portsReload", "syncReload"} => portRun' = portFile'
      BY <1>1, <2>4, PortStep
    <2>6. ASSUME NEW q \in Request \ {r} PROVE PortFits(q)'
      BY <2>1, <2>2 DEF PortFits
    <2> QED
      BY <2>5, <2>6
  <1>2. ASSUME \A q \in Request : Off(q), kind' = kind,
               UNCHANGED <<site, guiHost, portVars, sites, passed>>
        PROVE  /\ (\A r \in Request : at'[r] \notin {"portsReload", "syncReload"}) =>
                     portRun' = portFile'
               /\ \A q \in Request : PortFits(q)'
    <2>1. \A q \in Request : at'[q] # "failed"
      BY DEF Whole
    <2>2. \A q \in Request : at[q] \in PortLabel \/ at'[q] \in PortLabel => at'[q] = at[q]
      BY <1>2, <2>1 DEF Off
    <2>3. ASSUME NEW q \in Request PROVE PortFits(q)'
      <3>1. PortFits(q)
        BY <1>0, <1>2 DEF PortInv
      <3>2. /\ kind[q] = "proxyApply" => at'[q] \in {at[q], "start"}
            /\ kind[q] = "guiSet" => at'[q] \in {at[q], "start"}
        BY <1>2, <2>1 DEF Off, ProxyInv
      <3> QED
        BY <1>2, <2>2, <3>1, <3>2 DEF PortFits, PortLabel, Settled, Wants, portVars
    <2>4. portRun = portFile \/ \E q \in Request : at[q] \in {"portsReload", "syncReload"}
      BY <1>0, <1>2 DEF PortInv
    <2> QED
      BY <1>2, <2>2, <2>3, <2>4 DEF PortLabel, portVars
  <1>3. ~Crash
    BY DEF Crash, Whole, Active
  <1> QED
    BY <1>1, <1>2, <1>3, ProxyOrOff

(* A change of the interface's name ends with the store of certificates.   *)
LEMMA GuiDone ==
  ASSUME CallsInv, ProxyInv, [Next]_vars, NEW r \in Request,
         Finishes(r, "guiSet"), passed' = {}
  PROVE  at[r] = "store" /\ passed = {} /\ portRun' = portRun
  <1>1. /\ kind[r] = "guiSet" /\ at[r] # "done" /\ at'[r] = "done"
        /\ at[r] \in GuiSetLabel /\ at \in [Request -> Label]
    BY DEF Finishes, ProxyInv, CallsInv
  <1>2. ~Off(r)
    BY <1>1 DEF Off
  <1>3. ~Crash
    BY <1>1 DEF Crash, CallsInv
  <1>4. PICK q \in Request : ProxyStep(q) /\ Goes(q)
    BY <1>2, <1>3, ProxyOrOff
  <1>5. q = r
    BY <1>1, <1>4 DEF Goes, CallsInv
  <1>6. passed = {} /\ ~PassOver(r)
    BY <1>4, <1>5, PassedStays DEF PassOver
  <1>7. ~(WriteAcme(r) \/ SyncRead(r) \/ SyncCommit(r) \/ SyncReload(r) \/ LoadCert(r) \/ Renew(r))
    BY <1>1 DEF WriteAcme, SyncRead, SyncCommit, SyncReload, LoadCert, Renew, Steps, Step, After
  <1>8. ~GuiSetting(r)
    BY <1>1 DEF GuiSetting, Step
  <1>9. StoreCert(r)
    BY <1>1, <1>4, <1>5, <1>6, <1>7, <1>8
       DEF ProxyStep, Step, SiteCreate, SiteUpdate, SiteDelete, InstallPackage, InstallStop,
           InstallWrite, WipeLinks, LinkCert, ApplyRead, ApplyReady, ApplyWrite, ApplyStop,
           ApplyRestart, PortsRead, PortsCommit, PortsReload, GuiIssue, AcmeIssueRead,
           AcmeIssueLinked, Steps
  <1> QED
    BY <1>6, <1>9 DEF StoreCert, Steps, Step, NotStore, portVars

(* What PortHasOneOwner says of a step. *)
LEMMA OwnerStep ==
  ASSUME CallsInv, ProxyInv, SiteInv, PortInv, [Next]_vars
  PROVE  PortHasOneOwnerStep
  <1> SUFFICES ASSUME NEW r \in Request, Finishes(r, "proxyApply") \/ Finishes(r, "guiSet"),
                      Whole, InTurn, passed' = {}
               PROVE  /\ portRun' = IF "rp" \in portFile THEN {"rp"}
                                    ELSE IF guiHost # None THEN {"gui"} ELSE {}
                      /\ Finishes(r, "proxyApply") =>
                           ("rp" \in portFile) = (Enabled # {})
    BY DEF PortHasOneOwnerStep
  <1>1. Active(r) /\ portFile \subseteq {"rp", "gui"} /\ at \in [Request -> Label]
    <2>1. /\ at[r] \in {"sync", "syncReload", "store"} /\ portFile \subseteq {"rp", "gui"}
          /\ at \in [Request -> Label]
      BY SitesDone, GuiDone DEF ProxyInv, CallsInv
    <2> QED
      BY <2>1 DEF Active, Over
  <1>2. \A q \in Request \ {r} : at[q] \notin {"portsReload", "syncReload"}
    BY <1>1, OnlyOne DEF Active, Over
  <1>3. passed = {}
    BY SitesDone, GuiDone
  <1>4. PortFits(r) /\ (at[r] \notin {"portsReload", "syncReload"} => portRun = portFile)
    BY <1>2, <1>3 DEF PortInv
  <1>5. ASSUME Settled
        PROVE  portFile = IF "rp" \in portFile THEN {"rp"}
                          ELSE IF guiHost # None THEN {"gui"} ELSE {}
    BY <1>1, <1>5 DEF Settled, Wants
  <1>6. ASSUME Finishes(r, "proxyApply")
        PROVE  /\ Settled /\ portRun' = portFile
               /\ ("rp" \in portFile) = (Enabled # {})
    <2>1. kind[r] = "proxyApply" /\ r \in alone /\ at'[r] = "done"
      BY <1>6 DEF Finishes
    <2>2. at[r] \in {"sync", "syncReload"} /\ (SyncRead(r) \/ SyncReload(r))
      BY <1>6, SitesDone
    <2>3. ("rp" \in portFile) = (sites[r] # {})
      BY <1>4, <2>1, <2>2 DEF PortFits
    <2>4. RowsRead(r)
      BY <1>3, <2>1, <2>2 DEF SiteInv, SiteFits, PortSteps
    <2>5. (sites[r] # {}) = (Enabled # {})
      BY <2>4 DEF RowsRead, RowsTaken
    <2>6. CASE SyncRead(r)
      <3>1. at[r] = "sync" /\ Settled /\ portRun' = portRun
        BY <1>1, <2>1, <2>6 DEF SyncRead, Steps, Step, Settled
      <3> QED
        BY <1>4, <2>3, <2>5, <3>1
    <2>7. CASE SyncReload(r)
      <3>1. at[r] = "syncReload" /\ portRun' = portFile
        BY <2>7 DEF SyncReload, Steps, Step
      <3> QED
        BY <1>4, <2>3, <2>5, <3>1 DEF PortFits
    <2> QED
      BY <2>2, <2>6, <2>7
  <1>7. ASSUME Finishes(r, "guiSet") PROVE Settled /\ portRun' = portFile
    BY <1>4, <1>7, GuiDone DEF PortFits, Finishes
  <1> QED
    BY <1>5, <1>6, <1>7

(* Port 80 has one owner: as long as requests come one at a time and no    *)
(* step of them failed or was passed over, an apply of the sites leaves it *)
(* with the proxy if there are sites, and otherwise with the challenge     *)
(* server if the interface has a name; a change of the name keeps to that  *)
(* (rpFirewall, guiCertFirewallSync, core/proxy.go, guicert.go).           *)
THEOREM PortAlwaysHasOneOwner == Spec => PortHasOneOwner
  <1> DEFINE Inv == CallsInv /\ ProxyInv /\ SiteInv /\ PortInv
  <1>1. Init => Inv
    BY CallsInvInit, ProxyInvInit, SiteInvInit, PortInvInit
  <1>2. Inv /\ [Next]_vars => Inv'
    BY CallsInvStep, ProxyInvStep, SiteInvStep, PortInvStep
  <1>3. Inv /\ [Next]_vars => [PortHasOneOwnerStep]_vars
    BY OwnerStep
  <1> HIDE DEF Inv
  <1>4. Spec => [][PortHasOneOwnerStep]_vars
    BY <1>1, <1>2, <1>3, PTL DEF Spec
  <1> QED
    BY <1>4, PTL DEF PortHasOneOwner, PortHasOneOwnerStep

----------------------------------------------------------------------------
(* The parts of the services, and the scripts that write them.             *)

(* The table of the parts has one row for each.                            *)
LEMMA RowsApart == \A x, y \in PartTable : x[1] = y[1] => x = y
  BY DEF PartTable

(* What a row of the table of the parts says. *)
LEMMA RowSays ==
  ASSUME NEW x \in PartTable
  PROVE  x[1] \in Part /\ FileOf[x[1]] = x[2] /\ ReaderOf[x[1]] = x[3]
  <1>1. x[1] \in Part
    BY DEF Part
  <1>2. RowOf(x[1]) \in PartTable /\ RowOf(x[1])[1] = x[1]
    BY DEF RowOf
  <1>3. RowOf(x[1]) = x
    BY <1>2, RowsApart
  <1> QED
    BY <1>1, <1>3 DEF FileOf, ReaderOf

(* What a step of a handler does, and which steps write.                   *)
Deed == {"copy", "commit", "load", "setting", "cronRead", "cronWrite", "stop",
         "erase", "skip"}
(* The deeds that change a part. *)
Writing == {"commit", "cronWrite", "erase"}

(* The parts each handler writes.                                          *)
Parts ==
  [vlanCreate |-> {"vlan.network", "vlan.dhcp", "vlan.zone"},
   vlanDelete |-> {"vlan.network", "vlan.dhcp", "vlan.zone"},
   ipv6Set |-> {"ipv6.network", "ipv6.dhcp"},
   ospfSet |-> {"bird.conf", "ospf.rules"},
   qosSet |-> {"qos"},
   ddnsSet |-> {"ddns"},
   multiwanSet |-> {"mwan"},
   dhcpApply |-> {"hosts"},
   dhcpServerSet |-> {"server"},
   dhcpPoolSet |-> {"pool"},
   banipSet |-> {"banip", "allowlist"},
   adblockSet |-> {"adblock"},
   rpFilter |-> {"rpfilter"},
   icmpLimit |-> {"icmp"},
   bogon |-> {"bogon"},
   dnsWan |-> {"dnswan"},
   luciHTTPS |-> {"luci"},
   ipsecRules |-> {"ipsec"},
   scanSet |-> {"scan"},
   upsSet |-> {"nut.server", "nut.monitor", "nut.rules"},
   hostnameSet |-> {"hostname"},
   syslogSet |-> {"syslog"},
   timeSet |-> {"zone", "ntp"},
   logStoreSet |-> {"logstore", "logrotate"},
   backupSchedule |-> {"backup"}]

(* The handlers that copy a config before they write it (D-011).           *)
Copying == Scripted \ {"hostnameSet", "bogon", "ipsecRules", "upsSet"}

(* Step i of script s writes p, or has its reader load it.                 *)
WritesAt(s, i, p) == s[i].do \in Writing /\ p \in s[i].on
(* Line i of the script s loads part p into its service. *)
LoadsAt(s, i, p) == s[i].do = "load" /\ ReaderOf[p] \in s[i].on

(* A script is short, its steps are of the known kinds, and only its own   *)
(* parts are written.                                                      *)
StepsFit(k, s) ==
  /\ Parts[k] \subseteq Part /\ Len(s) \in 1..11 /\ DOMAIN s = 1..Len(s)
  /\ \A i \in 1..Len(s) :
       /\ s[i].do \in Deed
       /\ s[i].do \in Writing => s[i].on \subseteq Parts[k]
       /\ s[i].do \in {"stop", "skip", "erase", "cronWrite"} =>
            \E p \in Parts[k] : s[i].on = {p}
       /\ s[i].do = "copy" => s[i].on \subseteq {FileOf[p] : p \in Part}
       /\ s[i].do = "cronRead" => s[i].on \subseteq Crontab

(* One service is loaded at a time.                                        *)
LoadsOne(s) ==
  \A i \in 1..Len(s) : s[i].do = "load" => s[i].on # {} /\ \A x, y \in s[i].on : x = y

(* What is written is loaded after it.                                     *)
WritesLoad(k, s) ==
  \A p \in Parts[k] : \E i, j \in 1..Len(s) :
     i < j /\ WritesAt(s, i, p) /\ LoadsAt(s, j, p)

(* Nothing but what is left alone is passed by.                            *)
LeavesOwn(k, s) ==
  \A i \in 1..Len(s) :
     /\ s[i].do = "stop" => Parts[k] \subseteq s[i].on
     /\ s[i].do = "skip" =>
          /\ i + 2 <= Len(s)
          /\ \A j \in {i + 1, i + 2} :
                /\ s[j].do # "copy"
                /\ \A p \in Parts[k] \ s[i].on : ~WritesAt(s, j, p) /\ ~LoadsAt(s, j, p)

(* The crontab is written right after it was read, only a network is       *)
(* deleted for what was read, and no copy is passed over.                  *)
ReadsFirst(k, s) ==
  \A i \in 1..Len(s) :
     /\ s[i].do = "copy" => s[i].must
     /\ s[i].do = "erase" => k = "vlanDelete"
     /\ s[i].do = "cronWrite" =>
          /\ s[i].on \subseteq Crontab /\ i > 1
          /\ s[i - 1].do = "cronRead" /\ s[i - 1].must
          /\ s[i - 1].on = Crontab \ s[i].on
          /\ i > 3 => s[i - 3].do # "skip"

(* No two steps write the same file, and a config is copied before.        *)
CopiesFirst(k, s) ==
  \A i \in 1..Len(s), p \in Parts[k] : WritesAt(s, i, p) =>
     /\ \A j \in 1..Len(s), q \in Parts[k] :
           WritesAt(s, j, q) /\ i # j => FileOf[p] # FileOf[q]
     /\ k \in Copying /\ FileOf[p] \in Config =>
           \E j \in 1..Len(s) : j < i /\ s[j].do = "copy" /\ FileOf[p] \in s[j].on

(* Together. *)
Shape(k, s) ==
  /\ StepsFit(k, s) /\ WritesLoad(k, s) /\ LeavesOwn(k, s) /\ ReadsFirst(k, s)
  /\ CopiesFirst(k, s) /\ LoadsOne(s)

(* The scripts one by one, each by its lines. *)
LEMMA VlanCreateShape ==
  ASSUME NEW w
  PROVE  Shape("vlanCreate", Script("vlanCreate", w))
  <1> DEFINE s == Script("vlanCreate", w)
  <1>1. /\ Parts["vlanCreate"] = {"vlan.network", "vlan.dhcp", "vlan.zone"}
        /\ "vlan.network" \in Part /\ FileOf["vlan.network"] = "network" /\ ReaderOf["vlan.network"] = "network"
        /\ "vlan.dhcp" \in Part /\ FileOf["vlan.dhcp"] = "dhcp" /\ ReaderOf["vlan.dhcp"] = "dnsmasq"
        /\ "vlan.zone" \in Part /\ FileOf["vlan.zone"] = "firewall" /\ ReaderOf["vlan.zone"] = "firewall"
    BY RowSays DEF Parts, PartTable
  <1>2. /\ Len(s) = 9 /\ DOMAIN s = 1..9
        /\ s[1].do = "copy" /\ s[1].on = {"network"} /\ s[1].must = TRUE
        /\ s[2].do = "copy" /\ s[2].on = {"dhcp"} /\ s[2].must = TRUE
        /\ s[3].do = "copy" /\ s[3].on = {"firewall"} /\ s[3].must = TRUE
        /\ s[4].do = "commit" /\ s[4].on = {"vlan.network"}
        /\ s[5].do = "commit" /\ s[5].on = {"vlan.dhcp"}
        /\ s[6].do = "commit" /\ s[6].on = {"vlan.zone"}
        /\ s[7].do = "load" /\ s[7].on = {"network"}
        /\ s[8].do = "load" /\ s[8].on = {"dnsmasq"}
        /\ s[9].do = "load" /\ s[9].on = {"firewall"}
    BY DEF Script, VlanCreate, Do, Copy, Commit, CommitAll, Load
  <1> HIDE DEF s
  <1>3. StepsFit("vlanCreate", s)
    BY <1>1, <1>2 DEF StepsFit, Deed, Writing
  <1>4. WritesLoad("vlanCreate", s)
    BY <1>1, <1>2 DEF WritesLoad, WritesAt, LoadsAt, Writing
  <1>5. LeavesOwn("vlanCreate", s)
    BY <1>1, <1>2 DEF LeavesOwn, WritesAt, LoadsAt, Writing
  <1>6. ReadsFirst("vlanCreate", s)
    BY <1>1, <1>2 DEF ReadsFirst
  <1>7. CopiesFirst("vlanCreate", s)
    BY <1>1, <1>2 DEF CopiesFirst, WritesAt, Writing, Copying, Config
  <1>8. LoadsOne(s)
    BY <1>1, <1>2 DEF LoadsOne
  <1> QED
    BY <1>3, <1>4, <1>5, <1>6, <1>7, <1>8 DEF Shape, s

LEMMA VlanDeleteShape ==
  ASSUME NEW w
  PROVE  Shape("vlanDelete", Script("vlanDelete", w))
  <1> DEFINE s == Script("vlanDelete", w)
  <1>1. /\ Parts["vlanDelete"] = {"vlan.network", "vlan.dhcp", "vlan.zone"}
        /\ "vlan.network" \in Part /\ FileOf["vlan.network"] = "network" /\ ReaderOf["vlan.network"] = "network"
        /\ "vlan.dhcp" \in Part /\ FileOf["vlan.dhcp"] = "dhcp" /\ ReaderOf["vlan.dhcp"] = "dnsmasq"
        /\ "vlan.zone" \in Part /\ FileOf["vlan.zone"] = "firewall" /\ ReaderOf["vlan.zone"] = "firewall"
    BY RowSays DEF Parts, PartTable
  <1>2. /\ Len(s) = 9 /\ DOMAIN s = 1..9
        /\ s[1].do = "copy" /\ s[1].on = {"network"} /\ s[1].must = TRUE
        /\ s[2].do = "copy" /\ s[2].on = {"dhcp"} /\ s[2].must = TRUE
        /\ s[3].do = "copy" /\ s[3].on = {"firewall"} /\ s[3].must = TRUE
        /\ s[4].do = "erase" /\ s[4].on = {"vlan.zone"}
        /\ s[5].do = "erase" /\ s[5].on = {"vlan.dhcp"}
        /\ s[6].do = "commit" /\ s[6].on = {"vlan.network"}
        /\ s[7].do = "load" /\ s[7].on = {"firewall"}
        /\ s[8].do = "load" /\ s[8].on = {"dnsmasq"}
        /\ s[9].do = "load" /\ s[9].on = {"network"}
    BY DEF Script, VlanDelete, Do, Copy, Erase, Commit, CommitAll, Load
  <1> HIDE DEF s
  <1>3. StepsFit("vlanDelete", s)
    BY <1>1, <1>2 DEF StepsFit, Deed, Writing
  <1>4. WritesLoad("vlanDelete", s)
    BY <1>1, <1>2 DEF WritesLoad, WritesAt, LoadsAt, Writing
  <1>5. LeavesOwn("vlanDelete", s)
    BY <1>1, <1>2 DEF LeavesOwn, WritesAt, LoadsAt, Writing
  <1>6. ReadsFirst("vlanDelete", s)
    BY <1>1, <1>2 DEF ReadsFirst
  <1>7. CopiesFirst("vlanDelete", s)
    BY <1>1, <1>2 DEF CopiesFirst, WritesAt, Writing, Copying, Config
  <1>8. LoadsOne(s)
    BY <1>1, <1>2 DEF LoadsOne
  <1> QED
    BY <1>3, <1>4, <1>5, <1>6, <1>7, <1>8 DEF Shape, s

LEMMA IPv6SetShape ==
  ASSUME NEW w
  PROVE  Shape("ipv6Set", Script("ipv6Set", w))
  <1> DEFINE s == Script("ipv6Set", w)
  <1>1. /\ Parts["ipv6Set"] = {"ipv6.network", "ipv6.dhcp"}
        /\ "ipv6.network" \in Part /\ FileOf["ipv6.network"] = "network" /\ ReaderOf["ipv6.network"] = "network"
        /\ "ipv6.dhcp" \in Part /\ FileOf["ipv6.dhcp"] = "dhcp" /\ ReaderOf["ipv6.dhcp"] = "odhcpd"
    BY RowSays DEF Parts, PartTable
  <1>2. /\ Len(s) = 6 /\ DOMAIN s = 1..6
        /\ s[1].do = "copy" /\ s[1].on = {"network"} /\ s[1].must = TRUE
        /\ s[2].do = "copy" /\ s[2].on = {"dhcp"} /\ s[2].must = TRUE
        /\ s[3].do = "commit" /\ s[3].on = {"ipv6.network"}
        /\ s[4].do = "commit" /\ s[4].on = {"ipv6.dhcp"}
        /\ s[5].do = "load" /\ s[5].on = {"network"}
        /\ s[6].do = "load" /\ s[6].on = {"odhcpd"}
    BY DEF Script, IPv6Set, Do, Copy, Commit, CommitAll, Load, Try
  <1> HIDE DEF s
  <1>3. StepsFit("ipv6Set", s)
    BY <1>1, <1>2 DEF StepsFit, Deed, Writing
  <1>4. WritesLoad("ipv6Set", s)
    BY <1>1, <1>2 DEF WritesLoad, WritesAt, LoadsAt, Writing
  <1>5. LeavesOwn("ipv6Set", s)
    BY <1>1, <1>2 DEF LeavesOwn, WritesAt, LoadsAt, Writing
  <1>6. ReadsFirst("ipv6Set", s)
    BY <1>1, <1>2 DEF ReadsFirst
  <1>7. CopiesFirst("ipv6Set", s)
    BY <1>1, <1>2 DEF CopiesFirst, WritesAt, Writing, Copying, Config
  <1>8. LoadsOne(s)
    BY <1>1, <1>2 DEF LoadsOne
  <1> QED
    BY <1>3, <1>4, <1>5, <1>6, <1>7, <1>8 DEF Shape, s

LEMMA OspfSetShape ==
  ASSUME NEW w
  PROVE  Shape("ospfSet", Script("ospfSet", w))
  <1> DEFINE s == Script("ospfSet", w)
  <1>1. /\ Parts["ospfSet"] = {"bird.conf", "ospf.rules"}
        /\ "bird.conf" \in Part /\ FileOf["bird.conf"] = "bird.conf" /\ ReaderOf["bird.conf"] = "bird"
        /\ "ospf.rules" \in Part /\ FileOf["ospf.rules"] = "firewall" /\ ReaderOf["ospf.rules"] = "firewall"
    BY RowSays DEF Parts, PartTable
  <1>2. CASE w = None
    <2>1. /\ Len(s) = 8 /\ DOMAIN s = 1..8
          /\ s[1].do = "copy" /\ s[1].on = {"bird.conf"} /\ s[1].must = TRUE
          /\ s[2].do = "commit" /\ s[2].on = {"bird.conf"}
          /\ s[3].do = "copy" /\ s[3].on = {"firewall"} /\ s[3].must = TRUE
          /\ s[4].do = "skip" /\ s[4].on = {"ospf.rules"}
          /\ s[5].do = "commit" /\ s[5].on = {"ospf.rules"}
          /\ s[6].do = "load" /\ s[6].on = {"firewall"}
          /\ s[7].do = "setting" /\ s[7].on = {}
          /\ s[8].do = "load" /\ s[8].on = {"bird"}
      BY <1>2 DEF Script, OspfSet, Do, Copy, Commit, CommitAll, Skip, Load,
             Setting, Try
    <2> HIDE DEF s
    <2>2. StepsFit("ospfSet", s)
      BY <1>1, <2>1 DEF StepsFit, Deed, Writing
    <2>3. WritesLoad("ospfSet", s)
      BY <1>1, <2>1 DEF WritesLoad, WritesAt, LoadsAt, Writing
    <2>4. LeavesOwn("ospfSet", s)
      BY <1>1, <2>1 DEF LeavesOwn, WritesAt, LoadsAt, Writing
    <2>5. ReadsFirst("ospfSet", s)
      BY <1>1, <2>1 DEF ReadsFirst
    <2>6. CopiesFirst("ospfSet", s)
      BY <1>1, <2>1 DEF CopiesFirst, WritesAt, Writing, Copying, Config
    <2>7. LoadsOne(s)
      BY <1>1, <2>1 DEF LoadsOne
    <2> QED
      BY <2>2, <2>3, <2>4, <2>5, <2>6, <2>7 DEF Shape, s
  <1>3. CASE w # None
    <2>1. /\ Len(s) = 7 /\ DOMAIN s = 1..7
          /\ s[1].do = "copy" /\ s[1].on = {"bird.conf"} /\ s[1].must = TRUE
          /\ s[2].do = "commit" /\ s[2].on = {"bird.conf"}
          /\ s[3].do = "copy" /\ s[3].on = {"firewall"} /\ s[3].must = TRUE
          /\ s[4].do = "commit" /\ s[4].on = {"ospf.rules"}
          /\ s[5].do = "load" /\ s[5].on = {"firewall"}
          /\ s[6].do = "setting" /\ s[6].on = {}
          /\ s[7].do = "load" /\ s[7].on = {"bird"}
      BY <1>3 DEF Script, OspfSet, Do, Copy, Commit, CommitAll, Load, Setting
    <2> HIDE DEF s
    <2>2. StepsFit("ospfSet", s)
      BY <1>1, <2>1 DEF StepsFit, Deed, Writing
    <2>3. WritesLoad("ospfSet", s)
      BY <1>1, <2>1 DEF WritesLoad, WritesAt, LoadsAt, Writing
    <2>4. LeavesOwn("ospfSet", s)
      BY <1>1, <2>1 DEF LeavesOwn, WritesAt, LoadsAt, Writing
    <2>5. ReadsFirst("ospfSet", s)
      BY <1>1, <2>1 DEF ReadsFirst
    <2>6. CopiesFirst("ospfSet", s)
      BY <1>1, <2>1 DEF CopiesFirst, WritesAt, Writing, Copying, Config
    <2>7. LoadsOne(s)
      BY <1>1, <2>1 DEF LoadsOne
    <2> QED
      BY <2>2, <2>3, <2>4, <2>5, <2>6, <2>7 DEF Shape, s
  <1> QED
    BY <1>2, <1>3

LEMMA QosSetShape ==
  ASSUME NEW w
  PROVE  Shape("qosSet", Script("qosSet", w))
  <1> DEFINE s == Script("qosSet", w)
  <1>1. /\ Parts["qosSet"] = {"qos"}
        /\ "qos" \in Part /\ FileOf["qos"] = "sqm" /\ ReaderOf["qos"] = "sqm"
    BY RowSays DEF Parts, PartTable
  <1>2. /\ Len(s) = 3 /\ DOMAIN s = 1..3
        /\ s[1].do = "copy" /\ s[1].on = {"sqm"} /\ s[1].must = TRUE
        /\ s[2].do = "commit" /\ s[2].on = {"qos"}
        /\ s[3].do = "load" /\ s[3].on = {"sqm"}
    BY DEF Script, QosSet, Do, Copy, Commit, CommitAll, Load
  <1> HIDE DEF s
  <1>3. StepsFit("qosSet", s)
    BY <1>1, <1>2 DEF StepsFit, Deed, Writing
  <1>4. WritesLoad("qosSet", s)
    BY <1>1, <1>2 DEF WritesLoad, WritesAt, LoadsAt, Writing
  <1>5. LeavesOwn("qosSet", s)
    BY <1>1, <1>2 DEF LeavesOwn, WritesAt, LoadsAt, Writing
  <1>6. ReadsFirst("qosSet", s)
    BY <1>1, <1>2 DEF ReadsFirst
  <1>7. CopiesFirst("qosSet", s)
    BY <1>1, <1>2 DEF CopiesFirst, WritesAt, Writing, Copying, Config
  <1>8. LoadsOne(s)
    BY <1>1, <1>2 DEF LoadsOne
  <1> QED
    BY <1>3, <1>4, <1>5, <1>6, <1>7, <1>8 DEF Shape, s

LEMMA DdnsSetShape ==
  ASSUME NEW w
  PROVE  Shape("ddnsSet", Script("ddnsSet", w))
  <1> DEFINE s == Script("ddnsSet", w)
  <1>1. /\ Parts["ddnsSet"] = {"ddns"}
        /\ "ddns" \in Part /\ FileOf["ddns"] = "ddns" /\ ReaderOf["ddns"] = "ddns"
    BY RowSays DEF Parts, PartTable
  <1>2. /\ Len(s) = 3 /\ DOMAIN s = 1..3
        /\ s[1].do = "copy" /\ s[1].on = {"ddns"} /\ s[1].must = TRUE
        /\ s[2].do = "commit" /\ s[2].on = {"ddns"}
        /\ s[3].do = "load" /\ s[3].on = {"ddns"}
    BY DEF Script, DdnsSet, Do, Copy, Commit, CommitAll, Load
  <1> HIDE DEF s
  <1>3. StepsFit("ddnsSet", s)
    BY <1>1, <1>2 DEF StepsFit, Deed, Writing
  <1>4. WritesLoad("ddnsSet", s)
    BY <1>1, <1>2 DEF WritesLoad, WritesAt, LoadsAt, Writing
  <1>5. LeavesOwn("ddnsSet", s)
    BY <1>1, <1>2 DEF LeavesOwn, WritesAt, LoadsAt, Writing
  <1>6. ReadsFirst("ddnsSet", s)
    BY <1>1, <1>2 DEF ReadsFirst
  <1>7. CopiesFirst("ddnsSet", s)
    BY <1>1, <1>2 DEF CopiesFirst, WritesAt, Writing, Copying, Config
  <1>8. LoadsOne(s)
    BY <1>1, <1>2 DEF LoadsOne
  <1> QED
    BY <1>3, <1>4, <1>5, <1>6, <1>7, <1>8 DEF Shape, s

LEMMA MultiwanSetShape ==
  ASSUME NEW w
  PROVE  Shape("multiwanSet", Script("multiwanSet", w))
  <1> DEFINE s == Script("multiwanSet", w)
  <1>1. /\ Parts["multiwanSet"] = {"mwan"}
        /\ "mwan" \in Part /\ FileOf["mwan"] = "mwan3" /\ ReaderOf["mwan"] = "mwan3"
    BY RowSays DEF Parts, PartTable
  <1>2. /\ Len(s) = 4 /\ DOMAIN s = 1..4
        /\ s[1].do = "copy" /\ s[1].on = {"mwan3"} /\ s[1].must = TRUE
        /\ s[2].do = "commit" /\ s[2].on = {"mwan"}
        /\ s[3].do = "setting" /\ s[3].on = {}
        /\ s[4].do = "load" /\ s[4].on = {"mwan3"}
    BY DEF Script, MultiwanSet, Do, Copy, Commit, CommitAll, Setting, Load
  <1> HIDE DEF s
  <1>3. StepsFit("multiwanSet", s)
    BY <1>1, <1>2 DEF StepsFit, Deed, Writing
  <1>4. WritesLoad("multiwanSet", s)
    BY <1>1, <1>2 DEF WritesLoad, WritesAt, LoadsAt, Writing
  <1>5. LeavesOwn("multiwanSet", s)
    BY <1>1, <1>2 DEF LeavesOwn, WritesAt, LoadsAt, Writing
  <1>6. ReadsFirst("multiwanSet", s)
    BY <1>1, <1>2 DEF ReadsFirst
  <1>7. CopiesFirst("multiwanSet", s)
    BY <1>1, <1>2 DEF CopiesFirst, WritesAt, Writing, Copying, Config
  <1>8. LoadsOne(s)
    BY <1>1, <1>2 DEF LoadsOne
  <1> QED
    BY <1>3, <1>4, <1>5, <1>6, <1>7, <1>8 DEF Shape, s

LEMMA DHCPApplyShape ==
  ASSUME NEW w
  PROVE  Shape("dhcpApply", Script("dhcpApply", w))
  <1> DEFINE s == Script("dhcpApply", w)
  <1>1. /\ Parts["dhcpApply"] = {"hosts"}
        /\ "hosts" \in Part /\ FileOf["hosts"] = "dhcp" /\ ReaderOf["hosts"] = "dnsmasq"
    BY RowSays DEF Parts, PartTable
  <1>2. /\ Len(s) = 3 /\ DOMAIN s = 1..3
        /\ s[1].do = "copy" /\ s[1].on = {"dhcp"} /\ s[1].must = TRUE
        /\ s[2].do = "commit" /\ s[2].on = {"hosts"}
        /\ s[3].do = "load" /\ s[3].on = {"dnsmasq"}
    BY DEF Script, DHCPApply, Do, Copy, Commit, CommitAll, Load
  <1> HIDE DEF s
  <1>3. StepsFit("dhcpApply", s)
    BY <1>1, <1>2 DEF StepsFit, Deed, Writing
  <1>4. WritesLoad("dhcpApply", s)
    BY <1>1, <1>2 DEF WritesLoad, WritesAt, LoadsAt, Writing
  <1>5. LeavesOwn("dhcpApply", s)
    BY <1>1, <1>2 DEF LeavesOwn, WritesAt, LoadsAt, Writing
  <1>6. ReadsFirst("dhcpApply", s)
    BY <1>1, <1>2 DEF ReadsFirst
  <1>7. CopiesFirst("dhcpApply", s)
    BY <1>1, <1>2 DEF CopiesFirst, WritesAt, Writing, Copying, Config
  <1>8. LoadsOne(s)
    BY <1>1, <1>2 DEF LoadsOne
  <1> QED
    BY <1>3, <1>4, <1>5, <1>6, <1>7, <1>8 DEF Shape, s

LEMMA DHCPServerSetShape ==
  ASSUME NEW w
  PROVE  Shape("dhcpServerSet", Script("dhcpServerSet", w))
  <1> DEFINE s == Script("dhcpServerSet", w)
  <1>1. /\ Parts["dhcpServerSet"] = {"server"}
        /\ "server" \in Part /\ FileOf["server"] = "dhcp" /\ ReaderOf["server"] = "dnsmasq"
    BY RowSays DEF Parts, PartTable
  <1>2. /\ Len(s) = 3 /\ DOMAIN s = 1..3
        /\ s[1].do = "copy" /\ s[1].on = {"dhcp"} /\ s[1].must = TRUE
        /\ s[2].do = "commit" /\ s[2].on = {"server"}
        /\ s[3].do = "load" /\ s[3].on = {"dnsmasq"}
    BY DEF Script, DHCPServerSet, Do, Copy, Commit, CommitAll, Load
  <1> HIDE DEF s
  <1>3. StepsFit("dhcpServerSet", s)
    BY <1>1, <1>2 DEF StepsFit, Deed, Writing
  <1>4. WritesLoad("dhcpServerSet", s)
    BY <1>1, <1>2 DEF WritesLoad, WritesAt, LoadsAt, Writing
  <1>5. LeavesOwn("dhcpServerSet", s)
    BY <1>1, <1>2 DEF LeavesOwn, WritesAt, LoadsAt, Writing
  <1>6. ReadsFirst("dhcpServerSet", s)
    BY <1>1, <1>2 DEF ReadsFirst
  <1>7. CopiesFirst("dhcpServerSet", s)
    BY <1>1, <1>2 DEF CopiesFirst, WritesAt, Writing, Copying, Config
  <1>8. LoadsOne(s)
    BY <1>1, <1>2 DEF LoadsOne
  <1> QED
    BY <1>3, <1>4, <1>5, <1>6, <1>7, <1>8 DEF Shape, s

LEMMA DHCPPoolSetShape ==
  ASSUME NEW w
  PROVE  Shape("dhcpPoolSet", Script("dhcpPoolSet", w))
  <1> DEFINE s == Script("dhcpPoolSet", w)
  <1>1. /\ Parts["dhcpPoolSet"] = {"pool"}
        /\ "pool" \in Part /\ FileOf["pool"] = "dhcp" /\ ReaderOf["pool"] = "dnsmasq"
    BY RowSays DEF Parts, PartTable
  <1>2. /\ Len(s) = 3 /\ DOMAIN s = 1..3
        /\ s[1].do = "copy" /\ s[1].on = {"dhcp"} /\ s[1].must = TRUE
        /\ s[2].do = "commit" /\ s[2].on = {"pool"}
        /\ s[3].do = "load" /\ s[3].on = {"dnsmasq"}
    BY DEF Script, DHCPPoolSet, Do, Copy, Commit, CommitAll, Load
  <1> HIDE DEF s
  <1>3. StepsFit("dhcpPoolSet", s)
    BY <1>1, <1>2 DEF StepsFit, Deed, Writing
  <1>4. WritesLoad("dhcpPoolSet", s)
    BY <1>1, <1>2 DEF WritesLoad, WritesAt, LoadsAt, Writing
  <1>5. LeavesOwn("dhcpPoolSet", s)
    BY <1>1, <1>2 DEF LeavesOwn, WritesAt, LoadsAt, Writing
  <1>6. ReadsFirst("dhcpPoolSet", s)
    BY <1>1, <1>2 DEF ReadsFirst
  <1>7. CopiesFirst("dhcpPoolSet", s)
    BY <1>1, <1>2 DEF CopiesFirst, WritesAt, Writing, Copying, Config
  <1>8. LoadsOne(s)
    BY <1>1, <1>2 DEF LoadsOne
  <1> QED
    BY <1>3, <1>4, <1>5, <1>6, <1>7, <1>8 DEF Shape, s

LEMMA BanipSetShape ==
  ASSUME NEW w
  PROVE  Shape("banipSet", Script("banipSet", w))
  <1> DEFINE s == Script("banipSet", w)
  <1>1. /\ Parts["banipSet"] = {"banip", "allowlist"}
        /\ "banip" \in Part /\ FileOf["banip"] = "banip" /\ ReaderOf["banip"] = "banip"
        /\ "allowlist" \in Part /\ FileOf["allowlist"] = "allowlist" /\ ReaderOf["allowlist"] = "banip"
    BY RowSays DEF Parts, PartTable
  <1>2. /\ Len(s) = 4 /\ DOMAIN s = 1..4
        /\ s[1].do = "copy" /\ s[1].on = {"banip"} /\ s[1].must = TRUE
        /\ s[2].do = "commit" /\ s[2].on = {"banip"}
        /\ s[3].do = "commit" /\ s[3].on = {"allowlist"}
        /\ s[4].do = "load" /\ s[4].on = {"banip"}
    BY DEF Script, BanipSet, Do, Copy, Commit, CommitAll, Load
  <1> HIDE DEF s
  <1>3. StepsFit("banipSet", s)
    BY <1>1, <1>2 DEF StepsFit, Deed, Writing
  <1>4. WritesLoad("banipSet", s)
    BY <1>1, <1>2 DEF WritesLoad, WritesAt, LoadsAt, Writing
  <1>5. LeavesOwn("banipSet", s)
    BY <1>1, <1>2 DEF LeavesOwn, WritesAt, LoadsAt, Writing
  <1>6. ReadsFirst("banipSet", s)
    BY <1>1, <1>2 DEF ReadsFirst
  <1>7. CopiesFirst("banipSet", s)
    BY <1>1, <1>2 DEF CopiesFirst, WritesAt, Writing, Copying, Config
  <1>8. LoadsOne(s)
    BY <1>1, <1>2 DEF LoadsOne
  <1> QED
    BY <1>3, <1>4, <1>5, <1>6, <1>7, <1>8 DEF Shape, s

LEMMA AdblockSetShape ==
  ASSUME NEW w
  PROVE  Shape("adblockSet", Script("adblockSet", w))
  <1> DEFINE s == Script("adblockSet", w)
  <1>1. /\ Parts["adblockSet"] = {"adblock"}
        /\ "adblock" \in Part /\ FileOf["adblock"] = "adblock-fast" /\ ReaderOf["adblock"] = "adblock-fast"
    BY RowSays DEF Parts, PartTable
  <1>2. /\ Len(s) = 3 /\ DOMAIN s = 1..3
        /\ s[1].do = "copy" /\ s[1].on = {"adblock-fast"} /\ s[1].must = TRUE
        /\ s[2].do = "commit" /\ s[2].on = {"adblock"}
        /\ s[3].do = "load" /\ s[3].on = {"adblock-fast"}
    BY DEF Script, AdblockSet, Do, Copy, Commit, CommitAll, Load
  <1> HIDE DEF s
  <1>3. StepsFit("adblockSet", s)
    BY <1>1, <1>2 DEF StepsFit, Deed, Writing
  <1>4. WritesLoad("adblockSet", s)
    BY <1>1, <1>2 DEF WritesLoad, WritesAt, LoadsAt, Writing
  <1>5. LeavesOwn("adblockSet", s)
    BY <1>1, <1>2 DEF LeavesOwn, WritesAt, LoadsAt, Writing
  <1>6. ReadsFirst("adblockSet", s)
    BY <1>1, <1>2 DEF ReadsFirst
  <1>7. CopiesFirst("adblockSet", s)
    BY <1>1, <1>2 DEF CopiesFirst, WritesAt, Writing, Copying, Config
  <1>8. LoadsOne(s)
    BY <1>1, <1>2 DEF LoadsOne
  <1> QED
    BY <1>3, <1>4, <1>5, <1>6, <1>7, <1>8 DEF Shape, s

LEMMA RPFilterShape ==
  ASSUME NEW w
  PROVE  Shape("rpFilter", Script("rpFilter", w))
  <1> DEFINE s == Script("rpFilter", w)
  <1>1. /\ Parts["rpFilter"] = {"rpfilter"}
        /\ "rpfilter" \in Part /\ FileOf["rpfilter"] = "sysctl.conf" /\ ReaderOf["rpfilter"] = "kernel"
    BY RowSays DEF Parts, PartTable
  <1>2. CASE w = None
    <2>1. /\ Len(s) = 2 /\ DOMAIN s = 1..2
          /\ s[1].do = "commit" /\ s[1].on = {"rpfilter"}
          /\ s[2].do = "load" /\ s[2].on = {"kernel"}
      BY <1>2 DEF Script, RPFilter, Do, Commit, CommitAll, Load, Try
    <2> HIDE DEF s
    <2>2. StepsFit("rpFilter", s)
      BY <1>1, <2>1 DEF StepsFit, Deed, Writing
    <2>3. WritesLoad("rpFilter", s)
      BY <1>1, <2>1 DEF WritesLoad, WritesAt, LoadsAt, Writing
    <2>4. LeavesOwn("rpFilter", s)
      BY <1>1, <2>1 DEF LeavesOwn, WritesAt, LoadsAt, Writing
    <2>5. ReadsFirst("rpFilter", s)
      BY <1>1, <2>1 DEF ReadsFirst
    <2>6. CopiesFirst("rpFilter", s)
      BY <1>1, <2>1 DEF CopiesFirst, WritesAt, Writing, Copying, Config
    <2>7. LoadsOne(s)
      BY <1>1, <2>1 DEF LoadsOne
    <2> QED
      BY <2>2, <2>3, <2>4, <2>5, <2>6, <2>7 DEF Shape, s
  <1>3. CASE w # None
    <2>1. /\ Len(s) = 2 /\ DOMAIN s = 1..2
          /\ s[1].do = "commit" /\ s[1].on = {"rpfilter"}
          /\ s[2].do = "load" /\ s[2].on = {"kernel"}
      BY <1>3 DEF Script, RPFilter, Do, Commit, CommitAll, Load
    <2> HIDE DEF s
    <2>2. StepsFit("rpFilter", s)
      BY <1>1, <2>1 DEF StepsFit, Deed, Writing
    <2>3. WritesLoad("rpFilter", s)
      BY <1>1, <2>1 DEF WritesLoad, WritesAt, LoadsAt, Writing
    <2>4. LeavesOwn("rpFilter", s)
      BY <1>1, <2>1 DEF LeavesOwn, WritesAt, LoadsAt, Writing
    <2>5. ReadsFirst("rpFilter", s)
      BY <1>1, <2>1 DEF ReadsFirst
    <2>6. CopiesFirst("rpFilter", s)
      BY <1>1, <2>1 DEF CopiesFirst, WritesAt, Writing, Copying, Config
    <2>7. LoadsOne(s)
      BY <1>1, <2>1 DEF LoadsOne
    <2> QED
      BY <2>2, <2>3, <2>4, <2>5, <2>6, <2>7 DEF Shape, s
  <1> QED
    BY <1>2, <1>3

LEMMA ICMPLimitShape ==
  ASSUME NEW w
  PROVE  Shape("icmpLimit", Script("icmpLimit", w))
  <1> DEFINE s == Script("icmpLimit", w)
  <1>1. /\ Parts["icmpLimit"] = {"icmp"}
        /\ "icmp" \in Part /\ FileOf["icmp"] = "firewall" /\ ReaderOf["icmp"] = "firewall"
    BY RowSays DEF Parts, PartTable
  <1>2. CASE w = None
    <2>1. /\ Len(s) = 4 /\ DOMAIN s = 1..4
          /\ s[1].do = "copy" /\ s[1].on = {"firewall"} /\ s[1].must = TRUE
          /\ s[2].do = "stop" /\ s[2].on = {"icmp"}
          /\ s[3].do = "commit" /\ s[3].on = {"icmp"}
          /\ s[4].do = "load" /\ s[4].on = {"firewall"}
      BY <1>2 DEF Script, ICMPLimit, Do, Copy, Stop, Commit, CommitAll, Load
    <2> HIDE DEF s
    <2>2. StepsFit("icmpLimit", s)
      BY <1>1, <2>1 DEF StepsFit, Deed, Writing
    <2>3. WritesLoad("icmpLimit", s)
      BY <1>1, <2>1 DEF WritesLoad, WritesAt, LoadsAt, Writing
    <2>4. LeavesOwn("icmpLimit", s)
      BY <1>1, <2>1 DEF LeavesOwn, WritesAt, LoadsAt, Writing
    <2>5. ReadsFirst("icmpLimit", s)
      BY <1>1, <2>1 DEF ReadsFirst
    <2>6. CopiesFirst("icmpLimit", s)
      BY <1>1, <2>1 DEF CopiesFirst, WritesAt, Writing, Copying, Config
    <2>7. LoadsOne(s)
      BY <1>1, <2>1 DEF LoadsOne
    <2> QED
      BY <2>2, <2>3, <2>4, <2>5, <2>6, <2>7 DEF Shape, s
  <1>3. CASE w # None
    <2>1. /\ Len(s) = 3 /\ DOMAIN s = 1..3
          /\ s[1].do = "copy" /\ s[1].on = {"firewall"} /\ s[1].must = TRUE
          /\ s[2].do = "commit" /\ s[2].on = {"icmp"}
          /\ s[3].do = "load" /\ s[3].on = {"firewall"}
      BY <1>3 DEF Script, ICMPLimit, Do, Copy, Commit, CommitAll, Load
    <2> HIDE DEF s
    <2>2. StepsFit("icmpLimit", s)
      BY <1>1, <2>1 DEF StepsFit, Deed, Writing
    <2>3. WritesLoad("icmpLimit", s)
      BY <1>1, <2>1 DEF WritesLoad, WritesAt, LoadsAt, Writing
    <2>4. LeavesOwn("icmpLimit", s)
      BY <1>1, <2>1 DEF LeavesOwn, WritesAt, LoadsAt, Writing
    <2>5. ReadsFirst("icmpLimit", s)
      BY <1>1, <2>1 DEF ReadsFirst
    <2>6. CopiesFirst("icmpLimit", s)
      BY <1>1, <2>1 DEF CopiesFirst, WritesAt, Writing, Copying, Config
    <2>7. LoadsOne(s)
      BY <1>1, <2>1 DEF LoadsOne
    <2> QED
      BY <2>2, <2>3, <2>4, <2>5, <2>6, <2>7 DEF Shape, s
  <1> QED
    BY <1>2, <1>3

LEMMA BogonShape ==
  ASSUME NEW w
  PROVE  Shape("bogon", Script("bogon", w))
  <1> DEFINE s == Script("bogon", w)
  <1>1. /\ Parts["bogon"] = {"bogon"}
        /\ "bogon" \in Part /\ FileOf["bogon"] = "firewall" /\ ReaderOf["bogon"] = "firewall"
    BY RowSays DEF Parts, PartTable
  <1>2. CASE w = None
    <2>1. /\ Len(s) = 3 /\ DOMAIN s = 1..3
          /\ s[1].do = "stop" /\ s[1].on = {"bogon"}
          /\ s[2].do = "commit" /\ s[2].on = {"bogon"}
          /\ s[3].do = "load" /\ s[3].on = {"firewall"}
      BY <1>2 DEF Script, Bogon, Do, Stop, Commit, CommitAll, Load
    <2> HIDE DEF s
    <2>2. StepsFit("bogon", s)
      BY <1>1, <2>1 DEF StepsFit, Deed, Writing
    <2>3. WritesLoad("bogon", s)
      BY <1>1, <2>1 DEF WritesLoad, WritesAt, LoadsAt, Writing
    <2>4. LeavesOwn("bogon", s)
      BY <1>1, <2>1 DEF LeavesOwn, WritesAt, LoadsAt, Writing
    <2>5. ReadsFirst("bogon", s)
      BY <1>1, <2>1 DEF ReadsFirst
    <2>6. CopiesFirst("bogon", s)
      BY <1>1, <2>1 DEF CopiesFirst, WritesAt, Writing, Copying, Config
    <2>7. LoadsOne(s)
      BY <1>1, <2>1 DEF LoadsOne
    <2> QED
      BY <2>2, <2>3, <2>4, <2>5, <2>6, <2>7 DEF Shape, s
  <1>3. CASE w # None
    <2>1. /\ Len(s) = 3 /\ DOMAIN s = 1..3
          /\ s[1].do = "copy" /\ s[1].on = {"firewall"} /\ s[1].must = TRUE
          /\ s[2].do = "commit" /\ s[2].on = {"bogon"}
          /\ s[3].do = "load" /\ s[3].on = {"firewall"}
      BY <1>3 DEF Script, Bogon, Do, Copy, Commit, CommitAll, Load
    <2> HIDE DEF s
    <2>2. StepsFit("bogon", s)
      BY <1>1, <2>1 DEF StepsFit, Deed, Writing
    <2>3. WritesLoad("bogon", s)
      BY <1>1, <2>1 DEF WritesLoad, WritesAt, LoadsAt, Writing
    <2>4. LeavesOwn("bogon", s)
      BY <1>1, <2>1 DEF LeavesOwn, WritesAt, LoadsAt, Writing
    <2>5. ReadsFirst("bogon", s)
      BY <1>1, <2>1 DEF ReadsFirst
    <2>6. CopiesFirst("bogon", s)
      BY <1>1, <2>1 DEF CopiesFirst, WritesAt, Writing, Copying, Config
    <2>7. LoadsOne(s)
      BY <1>1, <2>1 DEF LoadsOne
    <2> QED
      BY <2>2, <2>3, <2>4, <2>5, <2>6, <2>7 DEF Shape, s
  <1> QED
    BY <1>2, <1>3

LEMMA DNSWanShape ==
  ASSUME NEW w
  PROVE  Shape("dnsWan", Script("dnsWan", w))
  <1> DEFINE s == Script("dnsWan", w)
  <1>1. /\ Parts["dnsWan"] = {"dnswan"}
        /\ "dnswan" \in Part /\ FileOf["dnswan"] = "dhcp" /\ ReaderOf["dnswan"] = "dnsmasq"
    BY RowSays DEF Parts, PartTable
  <1>2. CASE w = None
    <2>1. /\ Len(s) = 4 /\ DOMAIN s = 1..4
          /\ s[1].do = "copy" /\ s[1].on = {"dhcp"} /\ s[1].must = TRUE
          /\ s[2].do = "stop" /\ s[2].on = {"dnswan"}
          /\ s[3].do = "commit" /\ s[3].on = {"dnswan"}
          /\ s[4].do = "load" /\ s[4].on = {"dnsmasq"}
      BY <1>2 DEF Script, DNSWan, Do, Copy, Stop, Commit, CommitAll, Load
    <2> HIDE DEF s
    <2>2. StepsFit("dnsWan", s)
      BY <1>1, <2>1 DEF StepsFit, Deed, Writing
    <2>3. WritesLoad("dnsWan", s)
      BY <1>1, <2>1 DEF WritesLoad, WritesAt, LoadsAt, Writing
    <2>4. LeavesOwn("dnsWan", s)
      BY <1>1, <2>1 DEF LeavesOwn, WritesAt, LoadsAt, Writing
    <2>5. ReadsFirst("dnsWan", s)
      BY <1>1, <2>1 DEF ReadsFirst
    <2>6. CopiesFirst("dnsWan", s)
      BY <1>1, <2>1 DEF CopiesFirst, WritesAt, Writing, Copying, Config
    <2>7. LoadsOne(s)
      BY <1>1, <2>1 DEF LoadsOne
    <2> QED
      BY <2>2, <2>3, <2>4, <2>5, <2>6, <2>7 DEF Shape, s
  <1>3. CASE w # None
    <2>1. /\ Len(s) = 3 /\ DOMAIN s = 1..3
          /\ s[1].do = "copy" /\ s[1].on = {"dhcp"} /\ s[1].must = TRUE
          /\ s[2].do = "commit" /\ s[2].on = {"dnswan"}
          /\ s[3].do = "load" /\ s[3].on = {"dnsmasq"}
      BY <1>3 DEF Script, DNSWan, Do, Copy, Commit, CommitAll, Load
    <2> HIDE DEF s
    <2>2. StepsFit("dnsWan", s)
      BY <1>1, <2>1 DEF StepsFit, Deed, Writing
    <2>3. WritesLoad("dnsWan", s)
      BY <1>1, <2>1 DEF WritesLoad, WritesAt, LoadsAt, Writing
    <2>4. LeavesOwn("dnsWan", s)
      BY <1>1, <2>1 DEF LeavesOwn, WritesAt, LoadsAt, Writing
    <2>5. ReadsFirst("dnsWan", s)
      BY <1>1, <2>1 DEF ReadsFirst
    <2>6. CopiesFirst("dnsWan", s)
      BY <1>1, <2>1 DEF CopiesFirst, WritesAt, Writing, Copying, Config
    <2>7. LoadsOne(s)
      BY <1>1, <2>1 DEF LoadsOne
    <2> QED
      BY <2>2, <2>3, <2>4, <2>5, <2>6, <2>7 DEF Shape, s
  <1> QED
    BY <1>2, <1>3

LEMMA LuciHTTPSShape ==
  ASSUME NEW w
  PROVE  Shape("luciHTTPS", Script("luciHTTPS", w))
  <1> DEFINE s == Script("luciHTTPS", w)
  <1>1. /\ Parts["luciHTTPS"] = {"luci"}
        /\ "luci" \in Part /\ FileOf["luci"] = "uhttpd" /\ ReaderOf["luci"] = "uhttpd"
    BY RowSays DEF Parts, PartTable
  <1>2. /\ Len(s) = 3 /\ DOMAIN s = 1..3
        /\ s[1].do = "copy" /\ s[1].on = {"uhttpd"} /\ s[1].must = TRUE
        /\ s[2].do = "commit" /\ s[2].on = {"luci"}
        /\ s[3].do = "load" /\ s[3].on = {"uhttpd"}
    BY DEF Script, LuciHTTPS, Do, Copy, Commit, CommitAll, Load
  <1> HIDE DEF s
  <1>3. StepsFit("luciHTTPS", s)
    BY <1>1, <1>2 DEF StepsFit, Deed, Writing
  <1>4. WritesLoad("luciHTTPS", s)
    BY <1>1, <1>2 DEF WritesLoad, WritesAt, LoadsAt, Writing
  <1>5. LeavesOwn("luciHTTPS", s)
    BY <1>1, <1>2 DEF LeavesOwn, WritesAt, LoadsAt, Writing
  <1>6. ReadsFirst("luciHTTPS", s)
    BY <1>1, <1>2 DEF ReadsFirst
  <1>7. CopiesFirst("luciHTTPS", s)
    BY <1>1, <1>2 DEF CopiesFirst, WritesAt, Writing, Copying, Config
  <1>8. LoadsOne(s)
    BY <1>1, <1>2 DEF LoadsOne
  <1> QED
    BY <1>3, <1>4, <1>5, <1>6, <1>7, <1>8 DEF Shape, s

LEMMA IPsecRulesShape ==
  ASSUME NEW w
  PROVE  Shape("ipsecRules", Script("ipsecRules", w))
  <1> DEFINE s == Script("ipsecRules", w)
  <1>1. /\ Parts["ipsecRules"] = {"ipsec"}
        /\ "ipsec" \in Part /\ FileOf["ipsec"] = "firewall" /\ ReaderOf["ipsec"] = "firewall"
    BY RowSays DEF Parts, PartTable
  <1>2. CASE w = None
    <2>1. /\ Len(s) = 3 /\ DOMAIN s = 1..3
          /\ s[1].do = "stop" /\ s[1].on = {"ipsec"}
          /\ s[2].do = "commit" /\ s[2].on = {"ipsec"}
          /\ s[3].do = "load" /\ s[3].on = {"firewall"}
      BY <1>2 DEF Script, IPsecRules, Do, Stop, Commit, CommitAll, Load
    <2> HIDE DEF s
    <2>2. StepsFit("ipsecRules", s)
      BY <1>1, <2>1 DEF StepsFit, Deed, Writing
    <2>3. WritesLoad("ipsecRules", s)
      BY <1>1, <2>1 DEF WritesLoad, WritesAt, LoadsAt, Writing
    <2>4. LeavesOwn("ipsecRules", s)
      BY <1>1, <2>1 DEF LeavesOwn, WritesAt, LoadsAt, Writing
    <2>5. ReadsFirst("ipsecRules", s)
      BY <1>1, <2>1 DEF ReadsFirst
    <2>6. CopiesFirst("ipsecRules", s)
      BY <1>1, <2>1 DEF CopiesFirst, WritesAt, Writing, Copying, Config
    <2>7. LoadsOne(s)
      BY <1>1, <2>1 DEF LoadsOne
    <2> QED
      BY <2>2, <2>3, <2>4, <2>5, <2>6, <2>7 DEF Shape, s
  <1>3. CASE w # None
    <2>1. /\ Len(s) = 4 /\ DOMAIN s = 1..4
          /\ s[1].do = "stop" /\ s[1].on = {"ipsec"}
          /\ s[2].do = "copy" /\ s[2].on = {"firewall"} /\ s[2].must = TRUE
          /\ s[3].do = "commit" /\ s[3].on = {"ipsec"}
          /\ s[4].do = "load" /\ s[4].on = {"firewall"}
      BY <1>3 DEF Script, IPsecRules, Do, Stop, Copy, Commit, CommitAll, Load
    <2> HIDE DEF s
    <2>2. StepsFit("ipsecRules", s)
      BY <1>1, <2>1 DEF StepsFit, Deed, Writing
    <2>3. WritesLoad("ipsecRules", s)
      BY <1>1, <2>1 DEF WritesLoad, WritesAt, LoadsAt, Writing
    <2>4. LeavesOwn("ipsecRules", s)
      BY <1>1, <2>1 DEF LeavesOwn, WritesAt, LoadsAt, Writing
    <2>5. ReadsFirst("ipsecRules", s)
      BY <1>1, <2>1 DEF ReadsFirst
    <2>6. CopiesFirst("ipsecRules", s)
      BY <1>1, <2>1 DEF CopiesFirst, WritesAt, Writing, Copying, Config
    <2>7. LoadsOne(s)
      BY <1>1, <2>1 DEF LoadsOne
    <2> QED
      BY <2>2, <2>3, <2>4, <2>5, <2>6, <2>7 DEF Shape, s
  <1> QED
    BY <1>2, <1>3

LEMMA ScanSetShape ==
  ASSUME NEW w
  PROVE  Shape("scanSet", Script("scanSet", w))
  <1> DEFINE s == Script("scanSet", w)
  <1>1. /\ Parts["scanSet"] = {"scan"}
        /\ "scan" \in Part /\ FileOf["scan"] = "scan.nft" /\ ReaderOf["scan"] = "firewall"
    BY RowSays DEF Parts, PartTable
  <1>2. /\ Len(s) = 3 /\ DOMAIN s = 1..3
        /\ s[1].do = "commit" /\ s[1].on = {"scan"}
        /\ s[2].do = "setting" /\ s[2].on = {}
        /\ s[3].do = "load" /\ s[3].on = {"firewall"}
    BY DEF Script, ScanSet, Do, Commit, CommitAll, Setting, Load
  <1> HIDE DEF s
  <1>3. StepsFit("scanSet", s)
    BY <1>1, <1>2 DEF StepsFit, Deed, Writing
  <1>4. WritesLoad("scanSet", s)
    BY <1>1, <1>2 DEF WritesLoad, WritesAt, LoadsAt, Writing
  <1>5. LeavesOwn("scanSet", s)
    BY <1>1, <1>2 DEF LeavesOwn, WritesAt, LoadsAt, Writing
  <1>6. ReadsFirst("scanSet", s)
    BY <1>1, <1>2 DEF ReadsFirst
  <1>7. CopiesFirst("scanSet", s)
    BY <1>1, <1>2 DEF CopiesFirst, WritesAt, Writing, Copying, Config
  <1>8. LoadsOne(s)
    BY <1>1, <1>2 DEF LoadsOne
  <1> QED
    BY <1>3, <1>4, <1>5, <1>6, <1>7, <1>8 DEF Shape, s

LEMMA UPSSetShape ==
  ASSUME NEW w
  PROVE  Shape("upsSet", Script("upsSet", w))
  <1> DEFINE s == Script("upsSet", w)
  <1>1. /\ Parts["upsSet"] = {"nut.server", "nut.monitor", "nut.rules"}
        /\ "nut.server" \in Part /\ FileOf["nut.server"] = "nut_server" /\ ReaderOf["nut.server"] = "nut-server"
        /\ "nut.monitor" \in Part /\ FileOf["nut.monitor"] = "nut_monitor" /\ ReaderOf["nut.monitor"] = "nut-monitor"
        /\ "nut.rules" \in Part /\ FileOf["nut.rules"] = "firewall" /\ ReaderOf["nut.rules"] = "firewall"
    BY RowSays DEF Parts, PartTable
  <1>2. CASE w = None
    <2>1. /\ Len(s) = 10 /\ DOMAIN s = 1..10
          /\ s[1].do = "copy" /\ s[1].on = {"nut_server"} /\ s[1].must = TRUE
          /\ s[2].do = "copy" /\ s[2].on = {"nut_monitor"} /\ s[2].must = TRUE
          /\ s[3].do = "setting" /\ s[3].on = {}
          /\ s[4].do = "commit" /\ s[4].on = {"nut.server"}
          /\ s[5].do = "commit" /\ s[5].on = {"nut.monitor"}
          /\ s[6].do = "setting" /\ s[6].on = {}
          /\ s[7].do = "commit" /\ s[7].on = {"nut.rules"}
          /\ s[8].do = "load" /\ s[8].on = {"firewall"}
          /\ s[9].do = "load" /\ s[9].on = {"nut-server"}
          /\ s[10].do = "load" /\ s[10].on = {"nut-monitor"}
      BY <1>2 DEF Script, UPSSet, Do, Copy, Setting, Commit, CommitAll, Load,
             Try
    <2> HIDE DEF s
    <2>2. StepsFit("upsSet", s)
      BY <1>1, <2>1 DEF StepsFit, Deed, Writing
    <2>3. WritesLoad("upsSet", s)
      BY <1>1, <2>1 DEF WritesLoad, WritesAt, LoadsAt, Writing
    <2>4. LeavesOwn("upsSet", s)
      BY <1>1, <2>1 DEF LeavesOwn, WritesAt, LoadsAt, Writing
    <2>5. ReadsFirst("upsSet", s)
      BY <1>1, <2>1 DEF ReadsFirst
    <2>6. CopiesFirst("upsSet", s)
      BY <1>1, <2>1 DEF CopiesFirst, WritesAt, Writing, Copying, Config
    <2>7. LoadsOne(s)
      BY <1>1, <2>1 DEF LoadsOne
    <2> QED
      BY <2>2, <2>3, <2>4, <2>5, <2>6, <2>7 DEF Shape, s
  <1>3. CASE w # None
    <2>1. /\ Len(s) = 10 /\ DOMAIN s = 1..10
          /\ s[1].do = "copy" /\ s[1].on = {"nut_server"} /\ s[1].must = TRUE
          /\ s[2].do = "copy" /\ s[2].on = {"nut_monitor"} /\ s[2].must = TRUE
          /\ s[3].do = "setting" /\ s[3].on = {}
          /\ s[4].do = "commit" /\ s[4].on = {"nut.server"}
          /\ s[5].do = "commit" /\ s[5].on = {"nut.monitor"}
          /\ s[6].do = "setting" /\ s[6].on = {}
          /\ s[7].do = "commit" /\ s[7].on = {"nut.rules"}
          /\ s[8].do = "load" /\ s[8].on = {"firewall"}
          /\ s[9].do = "load" /\ s[9].on = {"nut-server"}
          /\ s[10].do = "load" /\ s[10].on = {"nut-monitor"}
      BY <1>3 DEF Script, UPSSet, Do, Copy, Setting, Commit, CommitAll, Load,
             Try
    <2> HIDE DEF s
    <2>2. StepsFit("upsSet", s)
      BY <1>1, <2>1 DEF StepsFit, Deed, Writing
    <2>3. WritesLoad("upsSet", s)
      BY <1>1, <2>1 DEF WritesLoad, WritesAt, LoadsAt, Writing
    <2>4. LeavesOwn("upsSet", s)
      BY <1>1, <2>1 DEF LeavesOwn, WritesAt, LoadsAt, Writing
    <2>5. ReadsFirst("upsSet", s)
      BY <1>1, <2>1 DEF ReadsFirst
    <2>6. CopiesFirst("upsSet", s)
      BY <1>1, <2>1 DEF CopiesFirst, WritesAt, Writing, Copying, Config
    <2>7. LoadsOne(s)
      BY <1>1, <2>1 DEF LoadsOne
    <2> QED
      BY <2>2, <2>3, <2>4, <2>5, <2>6, <2>7 DEF Shape, s
  <1> QED
    BY <1>2, <1>3

LEMMA HostnameSetShape ==
  ASSUME NEW w
  PROVE  Shape("hostnameSet", Script("hostnameSet", w))
  <1> DEFINE s == Script("hostnameSet", w)
  <1>1. /\ Parts["hostnameSet"] = {"hostname"}
        /\ "hostname" \in Part /\ FileOf["hostname"] = "system" /\ ReaderOf["hostname"] = "system"
    BY RowSays DEF Parts, PartTable
  <1>2. /\ Len(s) = 3 /\ DOMAIN s = 1..3
        /\ s[1].do = "commit" /\ s[1].on = {"hostname"}
        /\ s[2].do = "load" /\ s[2].on = {"system"}
        /\ s[3].do = "setting" /\ s[3].on = {}
    BY DEF Script, HostnameSet, Do, Commit, CommitAll, Load, Setting, Try
  <1> HIDE DEF s
  <1>3. StepsFit("hostnameSet", s)
    BY <1>1, <1>2 DEF StepsFit, Deed, Writing
  <1>4. WritesLoad("hostnameSet", s)
    BY <1>1, <1>2 DEF WritesLoad, WritesAt, LoadsAt, Writing
  <1>5. LeavesOwn("hostnameSet", s)
    BY <1>1, <1>2 DEF LeavesOwn, WritesAt, LoadsAt, Writing
  <1>6. ReadsFirst("hostnameSet", s)
    BY <1>1, <1>2 DEF ReadsFirst
  <1>7. CopiesFirst("hostnameSet", s)
    BY <1>1, <1>2 DEF CopiesFirst, WritesAt, Writing, Copying, Config
  <1>8. LoadsOne(s)
    BY <1>1, <1>2 DEF LoadsOne
  <1> QED
    BY <1>3, <1>4, <1>5, <1>6, <1>7, <1>8 DEF Shape, s

LEMMA SyslogSetShape ==
  ASSUME NEW w
  PROVE  Shape("syslogSet", Script("syslogSet", w))
  <1> DEFINE s == Script("syslogSet", w)
  <1>1. /\ Parts["syslogSet"] = {"syslog"}
        /\ "syslog" \in Part /\ FileOf["syslog"] = "system" /\ ReaderOf["syslog"] = "log"
    BY RowSays DEF Parts, PartTable
  <1>2. CASE w = None
    <2>1. /\ Len(s) = 4 /\ DOMAIN s = 1..4
          /\ s[1].do = "copy" /\ s[1].on = {"system"} /\ s[1].must = TRUE
          /\ s[2].do = "stop" /\ s[2].on = {"syslog"}
          /\ s[3].do = "commit" /\ s[3].on = {"syslog"}
          /\ s[4].do = "load" /\ s[4].on = {"log"}
      BY <1>2 DEF Script, SyslogSet, Do, Copy, Stop, Commit, CommitAll, Load
    <2> HIDE DEF s
    <2>2. StepsFit("syslogSet", s)
      BY <1>1, <2>1 DEF StepsFit, Deed, Writing
    <2>3. WritesLoad("syslogSet", s)
      BY <1>1, <2>1 DEF WritesLoad, WritesAt, LoadsAt, Writing
    <2>4. LeavesOwn("syslogSet", s)
      BY <1>1, <2>1 DEF LeavesOwn, WritesAt, LoadsAt, Writing
    <2>5. ReadsFirst("syslogSet", s)
      BY <1>1, <2>1 DEF ReadsFirst
    <2>6. CopiesFirst("syslogSet", s)
      BY <1>1, <2>1 DEF CopiesFirst, WritesAt, Writing, Copying, Config
    <2>7. LoadsOne(s)
      BY <1>1, <2>1 DEF LoadsOne
    <2> QED
      BY <2>2, <2>3, <2>4, <2>5, <2>6, <2>7 DEF Shape, s
  <1>3. CASE w # None
    <2>1. /\ Len(s) = 3 /\ DOMAIN s = 1..3
          /\ s[1].do = "copy" /\ s[1].on = {"system"} /\ s[1].must = TRUE
          /\ s[2].do = "commit" /\ s[2].on = {"syslog"}
          /\ s[3].do = "load" /\ s[3].on = {"log"}
      BY <1>3 DEF Script, SyslogSet, Do, Copy, Commit, CommitAll, Load
    <2> HIDE DEF s
    <2>2. StepsFit("syslogSet", s)
      BY <1>1, <2>1 DEF StepsFit, Deed, Writing
    <2>3. WritesLoad("syslogSet", s)
      BY <1>1, <2>1 DEF WritesLoad, WritesAt, LoadsAt, Writing
    <2>4. LeavesOwn("syslogSet", s)
      BY <1>1, <2>1 DEF LeavesOwn, WritesAt, LoadsAt, Writing
    <2>5. ReadsFirst("syslogSet", s)
      BY <1>1, <2>1 DEF ReadsFirst
    <2>6. CopiesFirst("syslogSet", s)
      BY <1>1, <2>1 DEF CopiesFirst, WritesAt, Writing, Copying, Config
    <2>7. LoadsOne(s)
      BY <1>1, <2>1 DEF LoadsOne
    <2> QED
      BY <2>2, <2>3, <2>4, <2>5, <2>6, <2>7 DEF Shape, s
  <1> QED
    BY <1>2, <1>3

LEMMA TimeSetShape ==
  ASSUME NEW w
  PROVE  Shape("timeSet", Script("timeSet", w))
  <1> DEFINE s == Script("timeSet", w)
  <1>1. /\ Parts["timeSet"] = {"zone", "ntp"}
        /\ "zone" \in Part /\ FileOf["zone"] = "system" /\ ReaderOf["zone"] = "system"
        /\ "ntp" \in Part /\ FileOf["ntp"] = "system" /\ ReaderOf["ntp"] = "sysntpd"
    BY RowSays DEF Parts, PartTable
  <1>2. /\ Len(s) = 5 /\ DOMAIN s = 1..5
        /\ s[1].do = "copy" /\ s[1].on = {"system"} /\ s[1].must = TRUE
        /\ s[2].do = "commit" /\ s[2].on = {"zone", "ntp"}
        /\ s[3].do = "load" /\ s[3].on = {"system"}
        /\ s[4].do = "load" /\ s[4].on = {"sysntpd"}
        /\ s[5].do = "load" /\ s[5].on = {"log"}
    BY DEF Script, TimeSet, Do, Copy, Commit, CommitAll, Load
  <1> HIDE DEF s
  <1>3. StepsFit("timeSet", s)
    BY <1>1, <1>2 DEF StepsFit, Deed, Writing
  <1>4. WritesLoad("timeSet", s)
    BY <1>1, <1>2 DEF WritesLoad, WritesAt, LoadsAt, Writing
  <1>5. LeavesOwn("timeSet", s)
    BY <1>1, <1>2 DEF LeavesOwn, WritesAt, LoadsAt, Writing
  <1>6. ReadsFirst("timeSet", s)
    BY <1>1, <1>2 DEF ReadsFirst
  <1>7. CopiesFirst("timeSet", s)
    BY <1>1, <1>2 DEF CopiesFirst, WritesAt, Writing, Copying, Config
  <1>8. LoadsOne(s)
    BY <1>1, <1>2 DEF LoadsOne
  <1> QED
    BY <1>3, <1>4, <1>5, <1>6, <1>7, <1>8 DEF Shape, s

LEMMA LogStoreSetShape ==
  ASSUME NEW w
  PROVE  Shape("logStoreSet", Script("logStoreSet", w))
  <1> DEFINE s == Script("logStoreSet", w)
  <1>1. /\ Parts["logStoreSet"] = {"logstore", "logrotate"}
        /\ "logstore" \in Part /\ FileOf["logstore"] = "system" /\ ReaderOf["logstore"] = "log"
        /\ "logrotate" \in Part /\ FileOf["logrotate"] = "crontab" /\ ReaderOf["logrotate"] = "cron"
    BY RowSays DEF Parts, PartTable
  <1>2. /\ Len(s) = 7 /\ DOMAIN s = 1..7
        /\ s[1].do = "copy" /\ s[1].on = {"system"} /\ s[1].must = TRUE
        /\ s[2].do = "commit" /\ s[2].on = {"logstore"}
        /\ s[3].do = "setting" /\ s[3].on = {}
        /\ s[4].do = "cronRead" /\ s[4].on = Crontab \ {"logrotate"} /\ s[4].must = TRUE
        /\ s[5].do = "cronWrite" /\ s[5].on = {"logrotate"}
        /\ s[6].do = "load" /\ s[6].on = {"cron"}
        /\ s[7].do = "load" /\ s[7].on = {"log"}
    BY DEF Script, LogStoreSet, Do, Copy, Commit, CommitAll, Setting, CronRead,
           CronWrite, Load
  <1> HIDE DEF s
  <1>3. StepsFit("logStoreSet", s)
    BY <1>1, <1>2 DEF StepsFit, Deed, Writing
  <1>4. WritesLoad("logStoreSet", s)
    BY <1>1, <1>2 DEF WritesLoad, WritesAt, LoadsAt, Writing
  <1>5. LeavesOwn("logStoreSet", s)
    BY <1>1, <1>2 DEF LeavesOwn, WritesAt, LoadsAt, Writing
  <1>6. ReadsFirst("logStoreSet", s)
    BY <1>1, <1>2 DEF ReadsFirst, Crontab
  <1>7. CopiesFirst("logStoreSet", s)
    BY <1>1, <1>2 DEF CopiesFirst, WritesAt, Writing, Copying, Config
  <1>8. LoadsOne(s)
    BY <1>1, <1>2 DEF LoadsOne
  <1> QED
    BY <1>3, <1>4, <1>5, <1>6, <1>7, <1>8 DEF Shape, s

LEMMA BackupScheduleSetShape ==
  ASSUME NEW w
  PROVE  Shape("backupSchedule", Script("backupSchedule", w))
  <1> DEFINE s == Script("backupSchedule", w)
  <1>1. /\ Parts["backupSchedule"] = {"backup"}
        /\ "backup" \in Part /\ FileOf["backup"] = "crontab" /\ ReaderOf["backup"] = "cron"
    BY RowSays DEF Parts, PartTable
  <1>2. /\ Len(s) = 3 /\ DOMAIN s = 1..3
        /\ s[1].do = "cronRead" /\ s[1].on = Crontab \ {"backup"} /\ s[1].must = TRUE
        /\ s[2].do = "cronWrite" /\ s[2].on = {"backup"}
        /\ s[3].do = "load" /\ s[3].on = {"cron"}
    BY DEF Script, BackupScheduleSet, Do, CronRead, CronWrite, Load
  <1> HIDE DEF s
  <1>3. StepsFit("backupSchedule", s)
    BY <1>1, <1>2 DEF StepsFit, Deed, Writing
  <1>4. WritesLoad("backupSchedule", s)
    BY <1>1, <1>2 DEF WritesLoad, WritesAt, LoadsAt, Writing
  <1>5. LeavesOwn("backupSchedule", s)
    BY <1>1, <1>2 DEF LeavesOwn, WritesAt, LoadsAt, Writing
  <1>6. ReadsFirst("backupSchedule", s)
    BY <1>1, <1>2 DEF ReadsFirst, Crontab
  <1>7. CopiesFirst("backupSchedule", s)
    BY <1>1, <1>2 DEF CopiesFirst, WritesAt, Writing, Copying, Config
  <1>8. LoadsOne(s)
    BY <1>1, <1>2 DEF LoadsOne
  <1> QED
    BY <1>3, <1>4, <1>5, <1>6, <1>7, <1>8 DEF Shape, s

----------------------------------------------------------------------------
(* The services.                                                           *)

(* The handlers of the services have one label of their own, and the steps *)
(* they take are those of their script.                                    *)
ScriptedLabel == {"new", "start", "script", "done", "failed"}

(* The number of lines of the script. *)
End(r) == Len(Code(r))

LineFits(r) ==
  /\ kind[r] \in Scripted => at[r] \in ScriptedLabel
  /\ at[r] = "script" =>
       /\ kind[r] \in Scripted /\ line[r] \in 1..End(r)
       /\ kind[r] = "vlanCreate" => wish[r] \in Wish
       /\ kind[r] = "vlanDelete" => wish[r] = None

(* The types of the services, and the lines. *)
ServicesInv == ServicesType /\ \A r \in Request : LineFits(r)

(* No handler of the services goes on, and what is new is none that is     *)
(* alone.                                                                  *)
Rests ==
  /\ kind' = kind
  /\ \A q \in Request :
       /\ kind[q] \in Scripted /\ at[q] \in ScriptedLabel =>
            at'[q] \in {at[q], "start", "failed"}
       /\ at'[q] = "script" => at[q] = "script" /\ (q \in alone' => q \in alone)

(* A step that is none of a handler of the services.                       *)
Foreign(r) ==
  at'[r] # "script" /\ (kind[r] \in Scripted => at[r] \notin ScriptedLabel)

----------------------------------------------------------------------------
(* What a script is asked for, and brings about.                           *)

(* What a request still has to do for part p: write it and have it loaded, *)
(* have it loaded, nothing.                                                *)
Awaits(r, p) ==
  \E i, j \in line[r]..End(r) :
     i < j /\ WritesAt(Code(r), i, p) /\ LoadsAt(Code(r), j, p)
(* It is written, and will be loaded. *)
Written(r, p) ==
  file[p] = wish[r] /\ \E j \in line[r]..End(r) : LoadsAt(Code(r), j, p)
(* It is written and loaded. *)
InForce(r, p) == file[p] = wish[r] /\ run[p] = wish[r]

(* One of the three. *)
AsAsked(r, p) == Awaits(r, p) \/ Written(r, p) \/ InForce(r, p)

(* A part is left as it is, or is a line of the crontab that r has lost,   *)
(* not being able to read it.                                              *)
KeptBy(r, p) ==
  \/ file'[p] = file[p]
  \/ p \in Crontab \cap missed'[r] /\ file'[p] = None

(* What a request has read of the crontab and of a network is so still.    *)
ReadFits(r) ==
  /\ Now(r).do = "cronWrite" =>
       \A q \in Crontab \ Now(r).on :
          read[r][q] = file[q] \/ (q \in missed[r] /\ read[r][q] = None)
  /\ kind[r] = "vlanDelete" =>
       \A p \in Network \ missed[r] : file[p] \in {read[r][p], None}

(* As long as a request is alone it is on its way to what it was asked.    *)
AskFits(r) ==
  ReadFits(r) /\ \A p \in Parts[kind[r]] \ missed[r] : AsAsked(r, p)

(* For whoever is alone in its script. *)
AskInv == \A r \in alone : at[r] = "script" => AskFits(r)

(* The body of DoesAsAsked. *)
DoesAsAskedStep ==
  \A r \in alone : kind[r] \in Scripted =>
    /\ line'[r] # line[r] =>
         \A p \in Part \ Writes(kind[r]) : KeptBy(r, p)
    /\ Finishes(r, kind[r]) =>
         \A p \in Writes(kind[r]) \ missed'[r] :
            file'[p] = wish[r] /\ run'[p] = wish[r]

----------------------------------------------------------------------------
(* Copies.                                                                 *)

(* What a request that is alone will write of a config is copied, or will  *)
(* be before.                                                              *)
CopyFits(r) ==
  \A i \in line[r]..End(r), p \in Parts[kind[r]] :
     WritesAt(Code(r), i, p) /\ FileOf[p] \in Config =>
       \/ FileOf[p] \in copied
       \/ \E j \in line[r]..End(r) :
             j < i /\ Code(r)[j].do = "copy" /\ FileOf[p] \in Code(r)[j].on

(* For whoever is alone in a script that copies. *)
CopyInv ==
  \A r \in alone : at[r] = "script" /\ kind[r] \in Copying => CopyFits(r)

(* The body of CopiedFirst.                                                *)
CopiedFirstStep ==
  \A r \in alone, f \in Config :
    /\ Committed(r, f)
    /\ kind[r] \notin {"hostnameSet", "bogon", "ipsecRules", "upsSet"}
    => f \in copied

----------------------------------------------------------------------------
(* VLANs.                                                                  *)

(* What of a network is there without its interface is none.               *)
VlanWhole ==
  file["vlan.dhcp"] # None \/ file["vlan.zone"] # None => file["vlan.network"] # None

(* The interface is made before the rest; what a deletion has not seen is  *)
(* not there, and what it has passed is gone.                              *)
VlanFits(r) ==
  /\ kind[r] = "vlanCreate" /\ line[r] > 4 => file["vlan.network"] # None
  /\ kind[r] = "vlanDelete" /\ ~blind =>
       /\ read[r]["vlan.zone"] = None \/ line[r] > 4 => file["vlan.zone"] = None
       /\ read[r]["vlan.dhcp"] = None \/ line[r] > 5 => file["vlan.dhcp"] = None

(* VlanCanGo, with what those under way have before them.                  *)
VlanInv ==
  InTurn => /\ ~blind => VlanWhole
            /\ \A r \in Request : at[r] = "script" => VlanFits(r)

(* Every script fits.                                                      *)
LEMMA ScriptShape ==
  ASSUME NEW k \in Scripted, NEW w
  PROVE  Shape(k, Script(k, w))
  BY VlanCreateShape, VlanDeleteShape, IPv6SetShape, OspfSetShape, QosSetShape,
     DdnsSetShape, MultiwanSetShape, DHCPApplyShape, DHCPServerSetShape,
     DHCPPoolSetShape, BanipSetShape, AdblockSetShape, RPFilterShape,
     ICMPLimitShape, BogonShape, DNSWanShape, LuciHTTPSShape, IPsecRulesShape,
     ScanSetShape, UPSSetShape, HostnameSetShape, SyslogSetShape, TimeSetShape,
     LogStoreSetShape, BackupScheduleSetShape DEF Scripted

(* A script changes parts of the system. *)
LEMMA PartsArePart ==
  ASSUME NEW k \in Scripted
  PROVE  Parts[k] \subseteq Part
  BY ScriptShape DEF Shape, StepsFit

(* What a step of a script writes is among what its handler writes, and    *)
(* that is among its parts.                                                *)
LEMMA WritesAre ==
  ASSUME NEW k \in Scripted, NEW w \in Wish \cup {None}, NEW i \in 1..Len(Script(k, w)), NEW p
  PROVE  WritesAt(Script(k, w), i, p) => p \in Writes(k) /\ p \in Parts[k]
  <1>1. i \in DOMAIN Script(k, w)
    BY ScriptShape DEF Shape, StepsFit
  <1>2. Script(k, w)[i].do \in Writing => Script(k, w)[i].on \subseteq Parts[k]
    BY ScriptShape DEF Shape, StepsFit
  <1> QED
    BY <1>1, <1>2 DEF Writes, WritesAt, Writing

(* They are the parts it is there to change. *)
LEMMA WritesAreParts ==
  ASSUME NEW k \in Scripted
  PROVE  Writes(k) \subseteq Parts[k]
  <1>1. ASSUME NEW w \in Wish \cup {None}, NEW i \in DOMAIN Script(k, w),
               Script(k, w)[i].do \in Writing
        PROVE  Script(k, w)[i].on \subseteq Parts[k]
    BY <1>1, ScriptShape DEF Shape, StepsFit
  <1> QED
    BY <1>1 DEF Writes, Writing

(* The handlers of the names and of the sites have no step of a script.    *)
LEMMA NamesForeign ==
  ASSUME CallsInv, NEW r \in Request, NamesStep(r)
  PROVE  Foreign(r)
  <1> USE DEF CallsInv, Step, Foreign, Scripted, ScriptedLabel
  <1>1. CASE RecordCreate(r) \/ RecordUpdate(r) \/ RecordDelete(r)
    BY <1>1 DEF RecordCreate, RecordUpdate, RecordDelete
  <1>2. CASE SplitCreate(r) \/ SplitUpdate(r) \/ SplitDelete(r)
    BY <1>2 DEF SplitCreate, SplitUpdate, SplitDelete
  <1>3. CASE ForwardCheck(r) \/ ForwardCreate(r) \/ ForwardUpdate(r) \/ ForwardDelete(r)
    BY <1>3 DEF ForwardCheck, ForwardCreate, ForwardUpdate, ForwardDelete
  <1>4. CASE ApplyReadRecords(r) \/ ReadFile(r, "namesApply", "file", "split")
    BY <1>4 DEF ApplyReadRecords, ReadFile
  <1>5. CASE ApplyReadSplit(r) \/ ApplyReadForward(r) \/ ApplyBatch(r)
    BY <1>5 DEF ApplyReadSplit, ApplyReadForward, ApplyBatch
  <1>6. CASE ApplyNoteSplit(r) \/ ApplyNoteForward(r)
    BY <1>6 DEF ApplyNoteSplit, ApplyNoteForward
  <1>7. CASE ReadFile(r, "dnssecOn", "start", "note") \/ DnssecOnNote(r) \/ DnssecOnBatch(r)
    BY <1>7 DEF ReadFile, DnssecOnNote, DnssecOnBatch
  <1>8. CASE ReadFile(r, "dnssecOff", "start", "note") \/ DnssecOffNote(r) \/ DnssecOffBatch(r)
    BY <1>8 DEF ReadFile, DnssecOffNote, DnssecOffBatch
  <1>9. CASE ReadFile(r, "upstream", "start", "batch") \/ UpstreamBatch(r) \/ UpstreamNote(r)
    BY <1>9 DEF ReadFile, UpstreamBatch, UpstreamNote
  <1>10. CASE \E k \in {"namesApply", "dnssecOn", "dnssecOff", "upstream"} : RestartDnsmasq(r, k)
    BY <1>10 DEF RestartDnsmasq
  <1> QED
    BY <1>1, <1>2, <1>3, <1>4, <1>5, <1>6, <1>7, <1>8, <1>9, <1>10 DEF NamesStep

(* Nor has a handler of the sites. *)
LEMMA ProxyForeign ==
  ASSUME CallsInv, NEW r \in Request, ProxyStep(r)
  PROVE  Foreign(r)
  <1> USE DEF CallsInv, Step, Foreign, Scripted, ScriptedLabel
  <1>1. CASE SiteCreate(r) \/ SiteUpdate(r) \/ SiteDelete(r)
    BY <1>1 DEF SiteCreate, SiteUpdate, SiteDelete
  <1>2. CASE InstallPackage(r) \/ InstallStop(r) \/ InstallWrite(r)
    BY <1>2 DEF InstallPackage, InstallStop, InstallWrite
  <1>3. After(r, "acme") # "script" /\ After(r, "sync") # "script"
    BY DEF After
  <1>4. CASE WriteAcme(r)
    BY <1>3, <1>4 DEF WriteAcme, Steps
  <1>5. CASE SyncRead(r) \/ SyncCommit(r) \/ SyncReload(r)
    BY <1>3, <1>5 DEF SyncRead, SyncCommit, SyncReload, Steps
  <1>6. CASE LoadCert(r) \/ StoreCert(r)
    BY <1>6 DEF LoadCert, StoreCert, Steps
  <1>7. CASE ApplyRead(r) \/ ApplyReady(r) \/ ApplyWrite(r) \/ ApplyStop(r) \/ ApplyRestart(r)
    BY <1>7 DEF ApplyRead, ApplyReady, ApplyWrite, ApplyStop, ApplyRestart
  <1>8. CASE PortsRead(r) \/ PortsCommit(r) \/ PortsReload(r)
    BY <1>8 DEF PortsRead, PortsCommit, PortsReload
  <1>9. CASE GuiSetting(r) \/ GuiIssue(r) \/ AcmeIssueRead(r) \/ Renew(r) \/ AcmeIssueLinked(r)
    BY <1>9 DEF GuiSetting, GuiIssue, AcmeIssueRead, Renew, AcmeIssueLinked, Steps
  <1>10. CASE PassOver(r)
    BY <1>3, <1>10 DEF PassOver, PassedOver, Steps
  <1>11. CASE WipeLinks(r) \/ LinkCert(r)
    BY <1>11 DEF WipeLinks, LinkCert, Steps
  <1> QED
    BY <1>1, <1>2, <1>4, <1>5, <1>6, <1>7, <1>8, <1>9, <1>10, <1>11 DEF ProxyStep

(* Whatever is no step of a handler of the services leaves those at rest.  *)
LEMMA ServicesOrRests ==
  ASSUME CallsInv, [Next]_vars
  PROVE  \/ \E r \in Request : ServicesStep(r) /\ Goes(r)
         \/ /\ Rests /\ UNCHANGED <<file, wish, line, read, copied, missed, blind>>
            /\ \/ run' = run
               \/ run' = file /\ \A q \in Request : at'[q] # "script"
  <1>1. CASE UNCHANGED vars
    BY <1>1 DEF vars, callVars, serviceVars, Rests
  <1>2. ASSUME NEW r \in Request, ServicesStep(r)
        PROVE  \E q \in Request : ServicesStep(q) /\ Goes(q)
    BY <1>2, ServicesGoes
  <1>3. ASSUME NEW r \in Request, Goes(r), Foreign(r) PROVE Rests
    BY <1>3 DEF Goes, Foreign, Rests, CallsInv
  <1>4. ASSUME NEW r \in Request, NamesStep(r) \/ ProxyStep(r) PROVE Rests
    BY <1>3, <1>4, NamesGoes, NamesForeign, ProxyGoes, ProxyForeign
  <1>5. ASSUME NEW r \in Request, Begin(r) PROVE Rests
    BY <1>5 DEF Begin, Rests, CallsInv, ScriptedLabel
  <1>6. ASSUME NEW r \in Request, Fails(r) PROVE Rests
    BY <1>6 DEF Fails, Fail, Rests, CallsInv
  <1>7. ASSUME Crash PROVE Rests /\ \A q \in Request : at'[q] # "script"
    BY <1>7 DEF Crash, Rests, CallsInv, Active, Over, Label
  <1>8. ASSUME UNCHANGED callVars PROVE Rests
    BY <1>8 DEF callVars, Rests
  <1>9. ASSUME UNCHANGED serviceVars
        PROVE  UNCHANGED <<file, run, wish, line, read, copied, missed, blind>>
    BY <1>9 DEF serviceVars
  <1>10. ASSUME NEW reboot \in BOOLEAN, ServicesRestart(reboot)
         PROVE  /\ UNCHANGED <<file, wish, line, read, copied, missed, blind>>
                /\ run' \in {run, file}
    BY <1>10 DEF ServicesRestart
  <1> QED
    BY <1>1, <1>2, <1>4, <1>5, <1>6, <1>7, <1>8, <1>9, <1>10 DEF Next

(* No script runs at first. *)
LEMMA ServicesInvInit == Init => ServicesInv
  <1> SUFFICES ASSUME NEW s \in Scenario, CallsInit(s), ServicesInit PROVE ServicesInv
    BY DEF Init
  <1>1. /\ wish = [r \in Request |-> None] /\ line = [r \in Request |-> 0]
        /\ read = [r \in Request |-> Blank] /\ copied = {}
        /\ missed = [r \in Request |-> {}] /\ blind = FALSE
    BY DEF ServicesInit
  <1>2. {file, run} \subseteq [Part -> Wish \cup {None}]
    <2>1. PICK free :
            \E f, l \in [free -> {None} \cup Wish], n \in {None} \cup Wish :
               /\ file = [p \in Part |-> IF p \in free THEN f[p]
                                         ELSE IF p \in Network THEN n ELSE None]
               /\ run = [p \in Part |-> IF p \in free THEN l[p] ELSE file[p]]
      BY DEF ServicesInit
    <2>2. PICK f \in [free -> {None} \cup Wish], l \in [free -> {None} \cup Wish],
               n \in {None} \cup Wish :
             /\ file = [p \in Part |-> IF p \in free THEN f[p]
                                       ELSE IF p \in Network THEN n ELSE None]
             /\ run = [p \in Part |-> IF p \in free THEN l[p] ELSE file[p]]
      BY <2>1
    <2>3. file \in [Part -> Wish \cup {None}]
      BY <2>2
    <2>4. run \in [Part -> Wish \cup {None}]
      BY <2>2, <2>3
    <2> QED
      BY <2>3, <2>4
  <1>3. read \in [Request -> [Part -> Wish \cup {None}]]
    BY <1>1 DEF Blank
  <1>5. ServicesType
    <2>1. line \in [Request -> 0..12]
      BY <1>1
    <2>2. missed \in [Request -> SUBSET Part]
      BY <1>1
    <2>3. wish \in [Request -> Wish \cup {None}]
      BY <1>1
    <2> QED
      BY <1>1, <1>2, <1>3, <2>1, <2>2, <2>3 DEF ServicesType
  <1>4. \A r \in Request : LineFits(r)
    BY DEF CallsInit, LineFits, ScriptedLabel
  <1> QED
    BY <1>4, <1>5 DEF ServicesInv

(* What a request has before it when it takes a step of its script.        *)
LEMMA AtScript ==
  ASSUME ServicesInv, NEW r \in Request, at[r] = "script"
  PROVE  /\ kind[r] \in Scripted /\ wish[r] \in Wish \cup {None}
         /\ line[r] \in 1..End(r) /\ End(r) \in 1..11
         /\ Shape(kind[r], Code(r))
  <1>1. kind[r] \in Scripted /\ wish[r] \in Wish \cup {None} /\ line[r] \in 1..End(r)
    BY DEF ServicesInv, ServicesType, LineFits
  <1>2. Shape(kind[r], Code(r))
    BY <1>1, ScriptShape DEF Code
  <1>3. End(r) \in 1..11
    BY <1>2 DEF Shape, StepsFit, End
  <1> QED
    BY <1>1, <1>2, <1>3

(* A request goes on to line n of its script, or ends.                     *)
LEMMA GotoFits ==
  ASSUME CallsInv, ServicesInv, NEW r \in Request, at[r] = "script",
         NEW n \in 2..End(r) + 1, Goto(r, n), wish' = wish
  PROVE  /\ line' \in [Request -> 0..12] /\ line'[r] = n
         /\ at'[r] = (IF n > End(r) THEN "done" ELSE "script")
         /\ Code(r)' = Code(r) /\ End(r)' = End(r)
         /\ \A q \in Request : LineFits(q)'
         /\ \A q \in Request \ {r} : at'[q] = at[q] /\ line'[q] = line[q]
  <1>1. /\ kind' = kind /\ line' = [line EXCEPT ![r] = n]
        /\ at' = [at EXCEPT ![r] = IF n > End(r) THEN "done" ELSE "script"]
    BY DEF Goto, Step, End
  <1>2. /\ line \in [Request -> 0..12] /\ at \in [Request -> Label]
        /\ n \in 0..12
    <2>1. End(r) \in 1..11
      BY AtScript
    <2>2. n \in 0..12
      BY <2>1
    <2>3. line \in [Request -> 0..12]
      BY DEF ServicesInv, ServicesType
    <2> QED
      BY <2>2, <2>3 DEF CallsInv
  <1>3. /\ line'[r] = n /\ line' \in [Request -> 0..12]
        /\ at'[r] = (IF n > End(r) THEN "done" ELSE "script")
        /\ \A q \in Request \ {r} : at'[q] = at[q] /\ line'[q] = line[q]
    BY <1>1, <1>2
  <1>4. \A q \in Request : Code(q)' = Code(q) /\ End(q)' = End(q)
    BY <1>1 DEF Code, End
  <1>5. LineFits(r)'
    <2>1. LineFits(r)
      BY DEF ServicesInv
    <2>2. n > End(r) \/ n \in 1..End(r)
      BY AtScript
    <2> QED
      BY <1>1, <1>3, <1>4, <2>1, <2>2, AtScript DEF LineFits, ScriptedLabel
  <1>6. ASSUME NEW q \in Request \ {r} PROVE LineFits(q)'
    BY <1>1, <1>3, <1>4 DEF LineFits, ServicesInv
  <1> QED
    BY <1>3, <1>4, <1>5, <1>6

(* The line a step goes to.                                                *)
LEMMA OnwardFits ==
  ASSUME ServicesInv, NEW r \in Request, at[r] = "script"
  PROVE  /\ line[r] + 1 \in 2..End(r) + 1 /\ End(r) + 1 \in 2..End(r) + 1
         /\ Now(r).do = "skip" => line[r] + 3 \in 2..End(r) + 1
         /\ Now(r).do \in Deed
  <1>1. /\ line[r] \in 1..End(r) /\ End(r) \in 1..11
        /\ Shape(kind[r], Code(r))
    BY AtScript
  <1>2. Now(r).do = "skip" => line[r] + 2 <= End(r)
    BY <1>1 DEF Shape, LeavesOwn, Now, End
  <1>3. Now(r).do \in Deed
    BY <1>1 DEF Shape, StepsFit, Now, End
  <1> QED
    BY <1>1, <1>2, <1>3

(* The part a step is about.                                               *)
LEMMA SubjectIs ==
  ASSUME ServicesInv, NEW r \in Request, at[r] = "script",
         Now(r).do \in {"stop", "skip", "erase", "cronWrite"}
  PROVE  /\ Subject(r) \in Part /\ Subject(r) \in Parts[kind[r]]
         /\ Now(r).on = {Subject(r)}
  <1>1. PICK p \in Parts[kind[r]] : Now(r).on = {p}
    BY AtScript DEF Shape, StepsFit, Now, End
  <1>2. Subject(r) = p
    BY <1>1 DEF Subject
  <1>3. Parts[kind[r]] \subseteq Part
    BY AtScript DEF Shape, StepsFit
  <1> QED
    BY <1>1, <1>2, <1>3

(* A step of a script goes on in it, or ends it.                           *)
LEMMA ScriptStep ==
  ASSUME CallsInv, ServicesInv, NEW r \in Request, ServicesStep(r), ~Arrive(r)
  PROVE  /\ at[r] = "script" /\ wish' = wish /\ kind' = kind
         /\ \E m \in 2..End(r) + 1 :
              /\ Goto(r, m) /\ m > line[r]
              /\ ~(Takes(r, "stop") \/ Takes(r, "skip")) => m = line[r] + 1
  <1>1. at[r] = "script" /\ wish' = wish
    BY DEF ServicesStep, CopyFile, CommitPart, ErasePart, LoadService, WriteSetting,
           ReadCrontab, WriteCrontab, Leave, PassStep, Takes
  <1>2. /\ line[r] \in 1..End(r) /\ End(r) \in 1..11
        /\ line[r] + 1 \in 2..End(r) + 1 /\ End(r) + 1 \in 2..End(r) + 1
        /\ Now(r).do = "skip" => line[r] + 3 \in 2..End(r) + 1
    <2>1. line[r] \in 1..End(r) /\ End(r) \in 1..11
      BY <1>1, AtScript
    <2>2. Now(r).do = "skip" => line[r] + 3 \in 2..End(r) + 1
      BY <1>1, OnwardFits
    <2> QED
      BY <2>1, <2>2
  <1>3. CASE Onward(r)
    <2>1. Goto(r, line[r] + 1) /\ line[r] + 1 > line[r]
      BY <1>2, <1>3 DEF Onward
    <2>2. kind' = kind
      BY <2>1 DEF Goto, Step
    <2> QED
      BY <1>1, <1>2, <2>1, <2>2
  <1>4. CASE Leave(r) /\ ~Onward(r)
    <2>1. /\ Goto(r, IF Now(r).do = "skip" THEN line[r] + 3 ELSE Len(Code(r)) + 1)
          /\ Takes(r, "stop") \/ Takes(r, "skip")
      BY <1>4 DEF Leave
    <2>2. CASE Now(r).do = "skip"
      <3>1. Goto(r, line[r] + 3) /\ line[r] + 3 > line[r]
        BY <1>2, <2>1, <2>2
      <3> QED
        BY <1>1, <1>2, <2>1, <2>2, <3>1 DEF Goto, Step
    <2>3. CASE Now(r).do # "skip"
      <3>1. Goto(r, End(r) + 1) /\ End(r) + 1 > line[r]
        BY <1>2, <2>1, <2>3 DEF End
      <3> QED
        BY <1>1, <1>2, <2>1, <3>1 DEF Goto, Step
    <2> QED
      BY <2>2, <2>3
  <1> QED
    BY <1>3, <1>4 DEF ServicesStep, CopyFile, CommitPart, ErasePart, LoadService,
       WriteSetting, ReadCrontab, WriteCrontab, PassStep

(* The lines of the crontab are parts, and no config of D-011. *)
LEMMA CrontabIsPart ==
  /\ Crontab \subseteq Part /\ Crontab \cap Network = {}
  /\ \A p \in Crontab : FileOf[p] \notin Config
  BY RowSays DEF Crontab, Network, PartTable, Config

(* The state of the services keeps its type.                               *)
LEMMA ScriptType ==
  ASSUME CallsInv, ServicesInv, NEW r \in Request, ServicesStep(r), ~Arrive(r)
  PROVE  ServicesInv'
  <1>0. /\ at[r] = "script" /\ wish[r] \in Wish \cup {None}
        /\ wish' = wish /\ line' \in [Request -> 0..12]
        /\ \A q \in Request : LineFits(q)'
    <2>1. PICK m \in 2..End(r) + 1 : Goto(r, m)
      BY ScriptStep
    <2>2. at[r] = "script" /\ wish' = wish
      BY ScriptStep
    <2> QED
      BY <2>1, <2>2, AtScript, GotoFits
  <1>1. /\ file \in [Part -> Wish \cup {None}] /\ run \in [Part -> Wish \cup {None}]
        /\ wish \in [Request -> Wish \cup {None}]
        /\ read \in [Request -> [Part -> Wish \cup {None}]]
        /\ missed \in [Request -> SUBSET Part]
        /\ copied \subseteq {FileOf[p] : p \in Part} /\ blind \in BOOLEAN
    BY DEF ServicesInv, ServicesType
  <1> SUFFICES /\ file' \in [Part -> Wish \cup {None}] /\ run' \in [Part -> Wish \cup {None}]
               /\ read' \in [Request -> [Part -> Wish \cup {None}]]
               /\ missed' \in [Request -> SUBSET Part]
               /\ copied' \subseteq {FileOf[p] : p \in Part} /\ blind' \in BOOLEAN
    BY <1>0, <1>1 DEF ServicesInv, ServicesType
  <1>2. CASE CopyFile(r)
    <2>1. Now(r).on \subseteq {FileOf[p] : p \in Part}
      BY <1>0, <1>2, AtScript DEF CopyFile, Takes, Shape, StepsFit, Now, End
    <2> QED
      BY <1>1, <1>2, <2>1 DEF CopyFile
  <1>3. CASE CommitPart(r)
    BY <1>0, <1>1, <1>3 DEF CommitPart, WriteTo
  <1>4. CASE ErasePart(r)
    BY <1>0, <1>1, <1>4 DEF ErasePart, WriteTo
  <1>5. CASE LoadService(r)
    BY <1>1, <1>5 DEF LoadService
  <1>6. CASE WriteSetting(r)
    BY <1>1, <1>6 DEF WriteSetting
  <1>7. CASE ReadCrontab(r)
    <2>1. /\ Only(Crontab) \in [Part -> Wish \cup {None}]
          /\ Blank \in [Part -> Wish \cup {None}]
      BY <1>1 DEF Only, Blank
    <2>2. Now(r).on \subseteq Part
      BY <1>0, <1>7, AtScript, CrontabIsPart
         DEF ReadCrontab, Takes, Shape, StepsFit, Now, End
    <2> QED
      BY <1>1, <1>7, <2>1, <2>2 DEF ReadCrontab
  <1>8. CASE WriteCrontab(r)
    <2>1. CrontabWith(r, Subject(r)) \in [Part -> Wish \cup {None}]
      BY <1>0, <1>1 DEF CrontabWith
    <2> QED
      BY <1>1, <1>8, <2>1 DEF WriteCrontab, WriteTo
  <1>9. CASE Leave(r)
    <2>1. Subject(r) \in Part
      BY <1>0, <1>9, SubjectIs DEF Leave, Takes
    <2> QED
      BY <1>1, <1>9, <2>1 DEF Leave
  <1>10. CASE PassStep(r)
    BY <1>1, <1>10 DEF PassStep
  <1> QED
    BY <1>2, <1>3, <1>4, <1>5, <1>6, <1>7, <1>8, <1>9, <1>10 DEF ServicesStep

(* A request for the services arrives.                                     *)
LEMMA ArriveType ==
  ASSUME CallsInv, ServicesInv, NEW r \in Request, Arrive(r)
  PROVE  /\ ServicesInv' /\ kind' = kind /\ at'[r] = "script" /\ line'[r] = 1
         /\ wish'[r] \in Asked(kind[r])
         /\ \A q \in Request \ {r} : at'[q] = at[q] /\ line'[q] = line[q] /\ wish'[q] = wish[q]
  <1>1. PICK w \in Asked(kind[r]) : wish' = [wish EXCEPT ![r] = w]
    BY DEF Arrive
  <1>2. /\ w \in Wish \cup {None}
        /\ kind[r] = "vlanCreate" => w \in Wish
        /\ kind[r] = "vlanDelete" => w = None
    BY <1>1 DEF Asked
  <1>3. /\ kind[r] \in Scripted /\ kind' = kind /\ at' = [at EXCEPT ![r] = "script"]
        /\ line' = [line EXCEPT ![r] = 1]
    BY DEF Arrive, Step
  <1>4. /\ file \in [Part -> Wish \cup {None}] /\ run \in [Part -> Wish \cup {None}]
        /\ wish \in [Request -> Wish \cup {None}] /\ line \in [Request -> 0..12]
        /\ read \in [Request -> [Part -> Wish \cup {None}]]
        /\ missed \in [Request -> SUBSET Part]
        /\ copied \subseteq {FileOf[p] : p \in Part} /\ blind \in BOOLEAN
    BY DEF ServicesInv, ServicesType
  <1>5. at \in [Request -> Label]
    BY DEF CallsInv
  <1>6. /\ at'[r] = "script" /\ line'[r] = 1 /\ wish'[r] = w
        /\ \A q \in Request \ {r} : at'[q] = at[q] /\ line'[q] = line[q] /\ wish'[q] = wish[q]
    BY <1>1, <1>3, <1>4, <1>5
  <1>7. read' \in [Request -> [Part -> Wish \cup {None}]] /\ missed' \in [Request -> SUBSET Part]
        /\ blind' \in BOOLEAN
    <2>1. CASE kind[r] # "vlanDelete"
      BY <1>4, <2>1 DEF Arrive
    <2>2. CASE kind[r] = "vlanDelete"
      <3>1. PICK gone \in {{}, {"vlan.dhcp"}, {"vlan.zone"}} :
               /\ read' = [read EXCEPT ![r] = Only(Network \ gone)]
               /\ missed' = [missed EXCEPT ![r] = gone]
               /\ blind' = (blind \/ gone # {})
        BY <2>2 DEF Arrive
      <3>2. Only(Network \ gone) \in [Part -> Wish \cup {None}]
        BY <1>4 DEF Only
      <3>3. gone \subseteq Part
        BY RowSays DEF PartTable
      <3> QED
        BY <1>4, <3>1, <3>2, <3>3
    <2> QED
      BY <2>1, <2>2
  <1>8. ServicesType'
    <2>1. wish' \in [Request -> Wish \cup {None}] /\ line' \in [Request -> 0..12]
      BY <1>1, <1>2, <1>3, <1>4
    <2>2. UNCHANGED <<file, run, copied>>
      BY DEF Arrive
    <2> QED
      BY <1>4, <1>7, <2>1, <2>2 DEF ServicesType
  <1>9. LineFits(r)'
    <2>1. kind'[r] \in Scripted /\ wish'[r] \in Wish \cup {None}
      BY <1>2, <1>3, <1>6
    <2>2. End(r)' \in 1..11
      <3>1. Shape(kind[r], Script(kind[r], w))
        BY <1>3, ScriptShape
      <3>2. End(r)' = Len(Script(kind[r], w))
        BY <1>3, <1>6 DEF End, Code
      <3> QED
        BY <3>1, <3>2 DEF Shape, StepsFit
    <2> QED
      BY <1>2, <1>3, <1>6, <2>2 DEF LineFits, ScriptedLabel
  <1>10. ASSUME NEW q \in Request \ {r} PROVE LineFits(q)'
    BY <1>3, <1>6 DEF LineFits, ServicesInv, End, Code
  <1> QED
    BY <1>1, <1>3, <1>6, <1>8, <1>9, <1>10 DEF ServicesInv

(* ServicesInv is inductive. *)
LEMMA ServicesInvStep ==
  ASSUME CallsInv, ServicesInv, [Next]_vars
  PROVE  ServicesInv'
  <1>1. CASE \E r \in Request : ServicesStep(r)
    BY <1>1, ScriptType, ArriveType
  <1>2. CASE /\ Rests /\ UNCHANGED <<file, wish, line, read, copied, missed, blind>>
             /\ run' \in {run, file}
    <2>1. ServicesType'
      BY <1>2 DEF ServicesInv, ServicesType
    <2>2. ASSUME NEW q \in Request PROVE LineFits(q)'
      BY <1>2 DEF Rests, ServicesInv, LineFits, ScriptedLabel, End, Code
    <2> QED
      BY <2>1, <2>2 DEF ServicesInv
  <1> QED
    BY <1>1, <1>2, ServicesOrRests

(* A part is in its file from then on, and nothing else is written, but    *)
(* for the lines of a crontab that could not be read.                      *)
LEMMA StepWrites ==
  ASSUME CallsInv, ServicesInv, NEW r \in Request, ReadFits(r), ServicesStep(r), ~Arrive(r)
  PROVE  /\ \A p \in Part : ~WritesAt(Code(r), line[r], p) => KeptBy(r, p)
         /\ \A p \in Part \ missed'[r] : WritesAt(Code(r), line[r], p) => file'[p] = wish[r]
         /\ missed[r] \subseteq missed'[r]
  <1>0. /\ at[r] = "script" /\ kind[r] \in Scripted /\ line[r] \in 1..End(r)
        /\ Shape(kind[r], Code(r))
        /\ kind[r] = "vlanDelete" => wish[r] = None
    BY ScriptStep, AtScript DEF ServicesInv, LineFits
  <1>1. /\ file \in [Part -> Wish \cup {None}] /\ missed \in [Request -> SUBSET Part]
        /\ Now(r) = Code(r)[line[r]]
    BY DEF ServicesInv, ServicesType, Now
  <1>2. CASE CommitPart(r)
    BY <1>1, <1>2 DEF CommitPart, WriteTo, Takes, WritesAt, Writing, KeptBy
  <1>3. CASE ErasePart(r)
    <2>1. /\ kind[r] = "vlanDelete" /\ Now(r).on = {Subject(r)} /\ Subject(r) \in Part
          /\ Subject(r) \in Network /\ wish[r] = None
      <3>1. kind[r] = "vlanDelete"
        BY <1>0, <1>1, <1>3 DEF ErasePart, Takes, Shape, ReadsFirst, End
      <3>2. Now(r).on = {Subject(r)} /\ Subject(r) \in Part /\ Subject(r) \in Parts[kind[r]]
        BY <1>0, <1>3, SubjectIs DEF ErasePart, Takes
      <3> QED
        BY <1>0, <3>1, <3>2 DEF Parts, Network
    <2>2. UNCHANGED missed
          /\ file' = [file EXCEPT ![Subject(r)] = IF read[r][Subject(r)] = None THEN @ ELSE None]
      BY <1>3 DEF ErasePart, WriteTo
    <2>3. Subject(r) \notin missed[r] => file[Subject(r)] \in {read[r][Subject(r)], None}
      BY <2>1 DEF ReadFits
    <2> QED
      BY <1>1, <1>3, <2>1, <2>2, <2>3 DEF WritesAt, Writing, ErasePart, Takes, KeptBy
  <1>4. CASE WriteCrontab(r)
    <2>1. /\ Now(r).on = {Subject(r)} /\ Subject(r) \in Part
          /\ \A q \in Crontab \ Now(r).on :
                read[r][q] = file[q] \/ (q \in missed[r] /\ read[r][q] = None)
      BY <1>0, <1>4, SubjectIs DEF WriteCrontab, Takes, ReadFits
    <2>2. /\ UNCHANGED missed /\ file' = CrontabWith(r, Subject(r))
          /\ Now(r).do = "cronWrite"
      BY <1>4 DEF WriteCrontab, WriteTo, Takes
    <2> QED
      BY <1>1, <2>1, <2>2 DEF CrontabWith, WritesAt, Writing, KeptBy
  <1>5. CASE CopyFile(r) \/ LoadService(r) \/ WriteSetting(r) \/ ReadCrontab(r)
    BY <1>1, <1>5 DEF CopyFile, LoadService, WriteSetting, ReadCrontab, Takes, WritesAt,
       Writing, KeptBy
  <1>6. CASE Leave(r)
    BY <1>1, <1>6 DEF Leave, Takes, WritesAt, Writing, KeptBy
  <1>7. CASE PassStep(r)
    BY <1>1, <1>7 DEF PassStep, WritesAt, KeptBy
  <1> QED
    BY <1>2, <1>3, <1>4, <1>5, <1>6, <1>7 DEF ServicesStep

(* A part is loaded with what its file says.                               *)
LEMMA StepLoads ==
  ASSUME CallsInv, ServicesInv, NEW r \in Request, ServicesStep(r), ~Arrive(r),
         NEW p \in Part
  PROVE  /\ LoadsAt(Code(r), line[r], p) /\ p \notin missed'[r] => run'[p] = file'[p]
         /\ ~LoadsAt(Code(r), line[r], p) => run'[p] = run[p]
  <1>0. /\ at[r] = "script" /\ line[r] \in 1..End(r) /\ Shape(kind[r], Code(r))
    BY ScriptStep, AtScript
  <1>1. /\ run \in [Part -> Wish \cup {None}] /\ missed \in [Request -> SUBSET Part]
        /\ Now(r) = Code(r)[line[r]]
    BY DEF ServicesInv, ServicesType, Now
  <1>2. CASE LoadService(r)
    <2>1. Now(r).on # {} /\ \A x, y \in Now(r).on : x = y
      BY <1>0, <1>1, <1>2 DEF LoadService, Takes, Shape, LoadsOne, End
    <2>2. Subject(r) \in Now(r).on
      BY <2>1 DEF Subject
    <2> QED
      BY <1>1, <1>2, <2>1, <2>2 DEF LoadService, LoadsAt, Takes
  <1>3. CASE PassStep(r)
    BY <1>1, <1>3 DEF PassStep, LoadsAt
  <1>4. CASE CopyFile(r) \/ WriteSetting(r) \/ ReadCrontab(r) \/ Leave(r)
    BY <1>1, <1>4 DEF CopyFile, WriteSetting, ReadCrontab, Leave, Takes, LoadsAt
  <1>5. CASE CommitPart(r) \/ ErasePart(r) \/ WriteCrontab(r)
    BY <1>1, <1>5 DEF CommitPart, ErasePart, WriteCrontab, Takes, LoadsAt
  <1> QED
    BY <1>2, <1>3, <1>4, <1>5 DEF ServicesStep

(* What a handler passes by is what it leaves alone.                       *)
LEMMA StepPasses ==
  ASSUME CallsInv, ServicesInv, NEW r \in Request, ServicesStep(r), ~Arrive(r)
  PROVE  /\ line'[r] \in line[r] + 1..End(r) + 1 /\ End(r) \in 1..11
         /\ line[r] \in 1..End(r) /\ Code(r)' = Code(r) /\ End(r)' = End(r)
         /\ at'[r] = (IF line'[r] > End(r) THEN "done" ELSE "script")
         /\ wish' = wish /\ kind' = kind
         /\ \A i \in line[r] + 1..line'[r] - 1 :
              /\ \A p \in Parts[kind[r]] \ missed'[r] :
                    ~WritesAt(Code(r), i, p) /\ ~LoadsAt(Code(r), i, p)
              /\ line'[r] <= End(r) => Code(r)[i].do # "copy"
         /\ line'[r] <= End(r) /\ Code(r)[line'[r]].do = "cronWrite" => line'[r] = line[r] + 1
  <1>1. PICK m \in 2..End(r) + 1 :
           /\ Goto(r, m) /\ m > line[r]
           /\ ~(Takes(r, "stop") \/ Takes(r, "skip")) => m = line[r] + 1
    BY ScriptStep
  <1>2. /\ at[r] = "script" /\ wish' = wish /\ kind' = kind
        /\ End(r) \in 1..11 /\ line[r] \in 1..End(r) /\ Shape(kind[r], Code(r))
    BY ScriptStep, AtScript
  <1>3. /\ line'[r] = m /\ Code(r)' = Code(r) /\ End(r)' = End(r)
        /\ at'[r] = (IF m > End(r) THEN "done" ELSE "script")
    BY <1>1, <1>2, GotoFits
  <1>4. m \in line[r] + 1..End(r) + 1
    BY <1>1, <1>2
  <1>5. CASE m = line[r] + 1
    BY <1>2, <1>3, <1>4, <1>5
  <1>6. CASE m # line[r] + 1
    <2>1. Takes(r, "stop") \/ Takes(r, "skip")
      BY <1>1, <1>6
    <2>2. Leave(r)
      <3>1. ~Onward(r)
        <4>1. Onward(r) => line'[r] = line[r] + 1
          BY DEF Onward, Goto, ServicesInv, ServicesType
        <4> QED
          BY <1>3, <1>6, <4>1
      <3> QED
        BY <3>1 DEF ServicesStep, CopyFile, CommitPart, ErasePart, LoadService, WriteSetting,
           ReadCrontab, WriteCrontab, PassStep
    <2>3. Now(r).on = {Subject(r)} /\ Subject(r) \in Part
      BY <1>2, <2>1, SubjectIs DEF Takes
    <2>4. /\ ~Onward(r) /\ missed'[r] = missed[r] \cup {Subject(r)}
          /\ Goto(r, IF Now(r).do = "skip" THEN line[r] + 3 ELSE Len(Code(r)) + 1)
      <3>1. Onward(r) => line'[r] = line[r] + 1
        BY DEF Onward, Goto, ServicesInv, ServicesType
      <3>2. ~Onward(r)
        BY <1>3, <1>6, <3>1
      <3> QED
        BY <2>2, <3>2 DEF Leave, ServicesInv, ServicesType
    <2>5. Now(r) = Code(r)[line[r]]
      BY DEF Now
    <2>6. CASE Now(r).do = "skip"
      <3>1. m = line[r] + 3
        <4>1. Goto(r, line[r] + 3)
          BY <2>4, <2>6
        <4> QED
          BY <1>3, <4>1 DEF Goto, ServicesInv, ServicesType
      <3>2. /\ line[r] + 2 <= End(r)
            /\ \A j \in {line[r] + 1, line[r] + 2} :
                  /\ Code(r)[j].do # "copy"
                  /\ \A p \in Parts[kind[r]] \ Now(r).on :
                        ~WritesAt(Code(r), j, p) /\ ~LoadsAt(Code(r), j, p)
        BY <1>2, <2>5, <2>6 DEF Shape, LeavesOwn, End
      <3>3. \A i \in line[r] + 1..line'[r] - 1 : i \in {line[r] + 1, line[r] + 2}
        BY <1>2, <1>3, <3>1
      <3>4. m <= End(r) => Code(r)[m].do # "cronWrite"
        <4>1. m - 3 = line[r] /\ m > 3 /\ m \in Nat
          BY <1>2, <3>1
        <4> QED
          BY <1>2, <2>5, <2>6, <4>1 DEF Shape, ReadsFirst, End
      <3> QED
        BY <1>2, <1>3, <1>4, <2>3, <2>4, <3>2, <3>3, <3>4
    <2>7. CASE Now(r).do = "stop"
      <3>1. m = End(r) + 1
        <4>1. Goto(r, End(r) + 1)
          BY <2>4, <2>7 DEF End
        <4> QED
          BY <1>3, <4>1 DEF Goto, ServicesInv, ServicesType
      <3>2. Parts[kind[r]] \subseteq missed'[r]
        BY <1>2, <2>3, <2>4, <2>5, <2>7 DEF Shape, LeavesOwn, End
      <3> QED
        BY <1>2, <1>3, <1>4, <3>1, <3>2
    <2> QED
      BY <2>1, <2>6, <2>7 DEF Takes
  <1> QED
    BY <1>5, <1>6

(* After a step a part is written, is to be written, or is as asked.       *)
LEMMA StepAsked ==
  ASSUME CallsInv, ServicesInv, NEW r \in Request, AskFits(r), ServicesStep(r), ~Arrive(r)
  PROVE  \A p \in Parts[kind[r]] \ missed'[r] : AsAsked(r, p)'
  <1> DEFINE s == Code(r)
             n == line[r]
             m == line'[r]
             e == End(r)
             k == kind[r]
  <1>1. /\ m \in n + 1..e + 1 /\ n \in 1..e /\ e \in 1..11
        /\ Code(r)' = s /\ End(r)' = e /\ wish' = wish /\ kind' = kind
        /\ \A i \in n + 1..m - 1, p \in Parts[k] \ missed'[r] :
              ~WritesAt(s, i, p) /\ ~LoadsAt(s, i, p)
    BY StepPasses
  <1>2. Parts[k] \subseteq Part
    BY ScriptStep, AtScript, PartsArePart
  <1> SUFFICES ASSUME NEW p \in Parts[k] \ missed'[r] PROVE AsAsked(r, p)'
    OBVIOUS
  <1>3. /\ ~WritesAt(s, n, p) => file'[p] = file[p]
        /\ WritesAt(s, n, p) => file'[p] = wish[r]
        /\ LoadsAt(s, n, p) => run'[p] = file'[p]
        /\ ~LoadsAt(s, n, p) => run'[p] = run[p]
        /\ AsAsked(r, p)
    <2>1. p \in Part /\ p \notin missed'[r] /\ p \in Parts[k] \ missed[r]
      BY <1>2, StepWrites DEF AskFits
    <2>2. AsAsked(r, p)
      BY <2>1 DEF AskFits
    <2> QED
      BY <2>1, <2>2, StepWrites, StepLoads DEF AskFits, KeptBy
  <1> HIDE DEF s, n, m, e, k
  <1>4. \A i \in n..e : WritesAt(s, i, p) \/ LoadsAt(s, i, p) => i = n \/ i \in m..e
    BY <1>1
  <1>5. /\ Awaits(r, p)' = \E i, j \in m..e :
                              i < j /\ WritesAt(s, i, p) /\ LoadsAt(s, j, p)
        /\ Written(r, p)' = (file'[p] = wish[r] /\ \E j \in m..e : LoadsAt(s, j, p))
        /\ InForce(r, p)' = (file'[p] = wish[r] /\ run'[p] = wish[r])
    BY <1>1 DEF Awaits, Written, InForce, s, m, e
  <1>6. CASE Awaits(r, p)
    <2>1. PICK i \in n..e, j \in n..e : i < j /\ WritesAt(s, i, p) /\ LoadsAt(s, j, p)
      BY <1>6 DEF Awaits, s, n, e
    <2>2. j \in m..e
      BY <1>1, <1>4, <2>1
    <2>3. CASE i = n
      BY <1>3, <1>5, <2>1, <2>2, <2>3 DEF AsAsked
    <2>4. CASE i # n
      BY <1>4, <1>5, <2>1, <2>2, <2>4 DEF AsAsked
    <2> QED
      BY <2>3, <2>4
  <1>7. CASE Written(r, p)
    <2>1. PICK j \in n..e : LoadsAt(s, j, p)
      BY <1>7 DEF Written, s, n, e
    <2>2. file'[p] = wish[r]
      BY <1>3, <1>7 DEF Written
    <2>3. CASE j = n
      BY <1>3, <1>5, <2>1, <2>2, <2>3 DEF AsAsked
    <2>4. CASE j # n
      BY <1>4, <1>5, <2>1, <2>2, <2>4 DEF AsAsked
    <2> QED
      BY <2>3, <2>4
  <1>8. CASE InForce(r, p)
    BY <1>3, <1>5, <1>8 DEF InForce, AsAsked
  <1> QED
    BY <1>3, <1>6, <1>7, <1>8 DEF AsAsked

(* What it has read it finds as it was.                                    *)
LEMMA StepReads ==
  ASSUME CallsInv, ServicesInv, NEW r \in Request, ReadFits(r), ServicesStep(r), ~Arrive(r),
         at'[r] = "script"
  PROVE  ReadFits(r)'
  <1>1. /\ at[r] = "script" /\ kind[r] \in Scripted /\ Shape(kind[r], Code(r))
        /\ kind[r] = "vlanDelete" => wish[r] = None
    BY ScriptStep, AtScript DEF ServicesInv, LineFits
  <1>2. /\ line'[r] \in line[r] + 1..End(r) + 1 /\ line[r] \in 1..End(r) /\ End(r) \in 1..11
        /\ Code(r)' = Code(r) /\ kind' = kind /\ wish' = wish
        /\ line'[r] <= End(r)
        /\ Code(r)[line'[r]].do = "cronWrite" => line'[r] = line[r] + 1
    <2>1. ~(line'[r] > End(r))
      BY StepPasses
    <2>2. line'[r] \in line[r] + 1..End(r) + 1 /\ line[r] \in 1..End(r) /\ End(r) \in 1..11
      BY StepPasses
    <2>3. line'[r] <= End(r)
      BY <2>1, <2>2
    <2> QED
      BY <2>2, <2>3, StepPasses
  <1>3. /\ Now(r)' = Code(r)[line'[r]] /\ Now(r) = Code(r)[line[r]]
        /\ read \in [Request -> [Part -> Wish \cup {None}]]
    BY <1>2 DEF Now, ServicesInv, ServicesType
  <1>4. ASSUME Now(r)'.do = "cronWrite"
        PROVE  \A q \in Crontab \ Now(r)'.on :
                  \/ read'[r][q] = file'[q]
                  \/ q \in missed'[r] /\ read'[r][q] = None
    <2>1. /\ Now(r).do = "cronRead" /\ Now(r).must
          /\ Now(r).on = Crontab \ Now(r)'.on
      <3>1. line'[r] = line[r] + 1
        BY <1>2, <1>3, <1>4
      <3>2. line'[r] \in 1..End(r) /\ line'[r] - 1 = line[r]
        BY <1>2, <3>1
      <3>3. Code(r)[line'[r]].do = "cronWrite"
        BY <1>3, <1>4
      <3>4. /\ Code(r)[line'[r] - 1].do = "cronRead"
            /\ Code(r)[line'[r] - 1].must
            /\ Code(r)[line'[r] - 1].on = Crontab \ Code(r)[line'[r]].on
        BY <1>1, <3>2, <3>3 DEF Shape, ReadsFirst, End
      <3> QED
        BY <1>3, <3>2, <3>4
    <2>2. ReadCrontab(r)
      BY <2>1 DEF ServicesStep, CopyFile, CommitPart, ErasePart, LoadService, WriteSetting,
         WriteCrontab, Leave, PassStep, Takes
    <2> QED
      BY <1>3, <2>1, <2>2, CrontabIsPart DEF ReadCrontab, Only, Blank, ServicesInv, ServicesType
  <1>5. ASSUME kind[r] = "vlanDelete", NEW p \in Network \ missed'[r]
        PROVE  file'[p] \in {read'[r][p], None}
    <2>1. p \in Part /\ p \in Network \ missed[r]
      BY <1>5, StepWrites, RowSays DEF Network, PartTable
    <2>2. file'[p] \in {file[p], None}
      BY <1>1, <1>5, <2>1, StepWrites DEF KeptBy
    <2>3. read' = read
      <3>1. \A i \in 1..9 : VlanDelete(wish[r])[i].do # "cronRead"
        BY DEF VlanDelete, Do, Copy, Erase, Commit, CommitAll, Load
      <3>2. Code(r) = VlanDelete(wish[r]) /\ Len(VlanDelete(wish[r])) = 9
        BY <1>5 DEF Code, Script, VlanDelete
      <3>3. ~ReadCrontab(r)
        BY <1>2, <1>3, <3>1, <3>2 DEF ReadCrontab, Takes, End
      <3> QED
        BY <3>3 DEF ServicesStep, CopyFile, CommitPart, ErasePart, LoadService, WriteSetting,
           WriteCrontab, Leave, PassStep
    <2>4. file[p] \in {read[r][p], None}
      BY <1>5, <2>1 DEF ReadFits
    <2> QED
      BY <2>2, <2>3, <2>4
  <1> QED
    BY <1>2, <1>4, <1>5 DEF ReadFits

(* A request that arrives has everything before it.                        *)
LEMMA ArriveAsks ==
  ASSUME CallsInv, ServicesInv, NEW r \in Request, Arrive(r)
  PROVE  AskFits(r)'
  <1>1. /\ kind' = kind /\ kind[r] \in Scripted /\ line'[r] = 1
    BY ArriveType DEF Arrive
  <1>2. Shape(kind[r], Code(r)') /\ Now(r)' = Code(r)'[1]
    BY <1>1, ScriptShape DEF Code, Now
  <1>3. Now(r)'.do # "cronWrite"
    <2>1. 1 \in 1..End(r)'
      BY <1>2 DEF Shape, StepsFit, End
    <2> QED
      BY <1>2, <2>1 DEF Shape, ReadsFirst, End
  <1>4. ASSUME NEW p \in Parts[kind[r]] PROVE AsAsked(r, p)'
    BY <1>1, <1>2 DEF AsAsked, Awaits, Shape, WritesLoad, End
  <1>5. ASSUME kind[r] = "vlanDelete", NEW p \in Network \ missed'[r]
        PROVE  file'[p] = read'[r][p]
    <2>1. PICK gone :
             /\ read' = [read EXCEPT ![r] = Only(Network \ gone)]
             /\ missed' = [missed EXCEPT ![r] = gone]
      BY <1>5 DEF Arrive
    <2>2. read'[r] = Only(Network \ gone) /\ missed'[r] = gone /\ file' = file
      BY <2>1 DEF Arrive, ServicesInv, ServicesType
    <2>3. p \in Part
      BY <1>5, RowSays DEF Network, PartTable
    <2> QED
      BY <1>5, <2>2, <2>3 DEF Only
  <1> QED
    BY <1>1, <1>3, <1>4, <1>5 DEF AskFits, ReadFits

(* Nobody is alone at first. *)
LEMMA AskInvInit == Init => AskInv
  BY DEF Init, CallsInit, AskInv

(* AskInv is inductive. *)
LEMMA AskInvStep ==
  ASSUME CallsInv, ServicesInv, AskInv, [Next]_vars
  PROVE  AskInv'
  <1>1. ASSUME NEW r \in Request, ServicesStep(r), Goes(r) PROVE AskInv'
    <2>1. /\ alone' = alone /\ Active(r) /\ \A q \in Request \ {r} : at'[q] = at[q]
          /\ alone \subseteq Request
      BY <1>1 DEF Goes, CallsInv
    <2>2. ASSUME NEW q \in alone, at'[q] = "script" PROVE q = r
      BY <2>1, <2>2 DEF CallsInv, Active, Over
    <2>3. CASE Arrive(r)
      BY <1>1, <2>1, <2>2, <2>3, ArriveAsks DEF AskInv
    <2>4. CASE ~Arrive(r)
      <3>1. at[r] = "script" /\ kind' = kind
        BY <1>1, <2>4, ScriptStep
      <3>2. ASSUME r \in alone, at'[r] = "script" PROVE AskFits(r)'
        <4>1. AskFits(r)
          BY <3>1, <3>2 DEF AskInv
        <4> QED
          BY <1>1, <2>4, <3>1, <3>2, <4>1, StepAsked, StepReads DEF AskFits
      <3> QED
        BY <2>1, <2>2, <3>2 DEF AskInv
    <2> QED
      BY <2>3, <2>4
  <1>2. CASE /\ Rests /\ UNCHANGED <<file, wish, line, read, copied, missed, blind>>
             /\ \/ run' = run
                \/ run' = file /\ \A q \in Request : at'[q] # "script"
    <2>1. CallsInv'
      BY CallsInvStep
    <2>2. ASSUME NEW q \in alone', at'[q] = "script" PROVE AskFits(q)'
      <3>1. q \in Request /\ q \in alone /\ at[q] = "script" /\ kind' = kind /\ run' = run
        BY <1>2, <2>1, <2>2 DEF Rests, CallsInv
      <3>2. AskFits(q)
        BY <3>1 DEF AskInv
      <3>3. Code(q)' = Code(q) /\ End(q)' = End(q) /\ Now(q)' = Now(q)
        BY <1>2, <3>1 DEF Code, End, Now
      <3> QED
        BY <1>2, <3>1, <3>2, <3>3 DEF AskFits, ReadFits, AsAsked, Awaits, Written, InForce
    <2> QED
      BY <2>2 DEF AskInv
  <1> QED
    BY <1>1, <1>2, ServicesOrRests

(* What a handler does when it is alone.                                   *)
LEMMA AskedStep ==
  ASSUME CallsInv, ServicesInv, AskInv, [Next]_vars
  PROVE  DoesAsAskedStep
  <1> SUFFICES ASSUME NEW r \in alone, kind[r] \in Scripted
               PROVE  /\ line'[r] # line[r] =>
                           \A p \in Part \ Writes(kind[r]) : KeptBy(r, p)
                      /\ Finishes(r, kind[r]) =>
                           \A p \in Writes(kind[r]) \ missed'[r] :
                              file'[p] = wish[r] /\ run'[p] = wish[r]
    BY DEF DoesAsAskedStep
  <1>0. r \in Request
    BY DEF CallsInv
  <1>1. CASE /\ Rests /\ UNCHANGED <<file, wish, line, read, copied, missed, blind>>
    <2>1. LineFits(r)
      BY <1>0 DEF ServicesInv
    <2>2. ~Finishes(r, kind[r])
      BY <1>0, <1>1, <2>1 DEF LineFits, Rests, Finishes
    <2> QED
      BY <1>1, <2>2
  <1>2. ASSUME NEW q \in Request \ {r}, ServicesStep(q), Goes(q)
        PROVE  line'[r] = line[r] /\ ~Finishes(r, kind[r])
    <2>1. at'[r] = at[r]
      BY <1>0, <1>2 DEF Goes, CallsInv
    <2>2. CASE Arrive(q)
      BY <1>0, <1>2, <2>1, <2>2, ArriveType DEF Finishes
    <2>3. CASE ~Arrive(q)
      <3>1. \E m : line' = [line EXCEPT ![q] = m]
        BY <1>2, <2>3, ScriptStep DEF Goto
      <3> QED
        BY <1>0, <1>2, <2>1, <3>1 DEF Finishes, ServicesInv, ServicesType
    <2> QED
      BY <2>2, <2>3
  <1>3. CASE Arrive(r)
    <2>1. at'[r] = "script" /\ file' = file
      BY <1>0, <1>3, ArriveType DEF Arrive
    <2> QED
      BY <2>1 DEF Finishes, KeptBy
  <1>4. CASE ServicesStep(r) /\ ~Arrive(r)
    <2>1. /\ at[r] = "script" /\ AskFits(r)
      BY <1>0, <1>4, ScriptStep DEF AskInv
    <2>2. /\ line[r] \in 1..End(r) /\ wish[r] \in Wish \cup {None} /\ wish' = wish
          /\ at'[r] = (IF line'[r] > End(r) THEN "done" ELSE "script")
          /\ line'[r] \in line[r] + 1..End(r) + 1 /\ End(r) \in 1..11 /\ End(r)' = End(r)
      BY <1>0, <1>4, <2>1, AtScript, StepPasses
    <2>3. ASSUME NEW p \in Part \ Writes(kind[r]) PROVE KeptBy(r, p)
      <3>1. ~WritesAt(Code(r), line[r], p)
        BY <2>2, <2>3, WritesAre DEF Code, End
      <3> QED
        BY <1>0, <1>4, <2>1, <3>1, StepWrites DEF AskFits
    <2>4. ASSUME Finishes(r, kind[r]), NEW p \in Writes(kind[r]) \ missed'[r]
          PROVE  file'[p] = wish[r] /\ run'[p] = wish[r]
      <3>1. AsAsked(r, p)'
        BY <1>0, <1>4, <2>1, <2>4, WritesAreParts, StepAsked
      <3>2. line'[r] > End(r)
        BY <2>2, <2>4 DEF Finishes
      <3>3. line'[r]..End(r) = {}
        BY <2>2, <3>2
      <3>4. InForce(r, p)'
        BY <2>2, <3>1, <3>3 DEF AsAsked, Awaits, Written
      <3> QED
        BY <2>2, <3>4 DEF InForce
    <2> QED
      BY <2>3, <2>4
  <1> QED
    BY <1>0, <1>1, <1>2, <1>3, <1>4, ServicesOrRests

(* A handler of the services that runs alone changes its own parts only,   *)
(* and when it answers as done they are as asked, in the files and in the  *)
(* services that read them, whatever failed or overlapped before: all 25   *)
(* handlers, each with its script.  A line of another in the crontab is    *)
(* lost only where the crontab could not be read (backup.go:583).          *)
THEOREM EachDoesAsAsked == Spec => DoesAsAsked
  <1> DEFINE Inv == CallsInv /\ ServicesInv /\ AskInv
  <1>1. Init => Inv
    BY CallsInvInit, ServicesInvInit, AskInvInit
  <1>2. Inv /\ [Next]_vars => Inv'
    BY CallsInvStep, ServicesInvStep, AskInvStep
  <1>3. Inv /\ [Next]_vars => [DoesAsAskedStep]_vars
    BY AskedStep
  <1> HIDE DEF Inv
  <1>4. Spec => [][DoesAsAskedStep]_vars
    BY <1>1, <1>2, <1>3, PTL DEF Spec
  <1> QED
    BY <1>4, PTL DEF DoesAsAsked, DoesAsAskedStep, KeptBy

(* A line of a script that copies. *)
LEMMA StepCopies ==
  ASSUME CallsInv, ServicesInv, NEW r \in Request, ReadFits(r), CopyFits(r),
         ServicesStep(r), ~Arrive(r), at'[r] = "script"
  PROVE  CopyFits(r)'
  <1> DEFINE s == Code(r)
             n == line[r]
             m == line'[r]
             e == End(r)
             k == kind[r]
  <1>1. /\ m \in n + 1..e + 1 /\ n \in 1..e /\ e \in 1..11 /\ m <= e
        /\ Code(r)' = s /\ End(r)' = e /\ kind' = kind
        /\ \A i \in n + 1..m - 1 : s[i].do # "copy"
    <2>1. ~(m > e) /\ m \in n + 1..e + 1 /\ n \in 1..e /\ e \in 1..11
      BY StepPasses
    <2>2. m <= e
      BY <2>1
    <2> QED
      BY <2>1, <2>2, StepPasses
  <1>2. /\ Shape(k, s) /\ Parts[k] \subseteq Part /\ at[r] = "script" /\ Now(r) = s[n]
    BY ScriptStep, AtScript, PartsArePart DEF Now
  <1> SUFFICES ASSUME NEW i \in m..e, NEW p \in Parts[k], WritesAt(s, i, p), FileOf[p] \in Config
               PROVE  \/ FileOf[p] \in copied'
                      \/ \E j \in m..e : j < i /\ s[j].do = "copy" /\ FileOf[p] \in s[j].on
    BY <1>1 DEF CopyFits
  <1>3. i \in n..e /\ i # n /\ i \in 1..e
    BY <1>1
  <1>4. FileOf[p] \in copied => FileOf[p] \in copied'
    <2>1. ASSUME NEW q \in Part, file'[q] # file[q] PROVE FileOf[q] # FileOf[p]
      <3>1. WritesAt(s, n, q) \/ FileOf[q] \notin Config
        BY <2>1, StepWrites, CrontabIsPart DEF KeptBy
      <3>2. WritesAt(s, n, q) => q \in Parts[k]
        BY <1>1, <1>2 DEF Shape, StepsFit, WritesAt, End
      <3> QED
        BY <1>1, <1>2, <1>3, <3>1, <3>2 DEF Shape, CopiesFirst, End
    <2>2. \/ copied' = copied
          \/ copied' = copied \cup Now(r).on
          \/ \E f : WriteTo(f)
      BY DEF ServicesStep, CopyFile, CommitPart, ErasePart, LoadService, WriteSetting,
         ReadCrontab, WriteCrontab, Leave, PassStep
    <2> QED
      BY <2>1, <2>2 DEF WriteTo
  <1>5. CASE \E j \in n..e : j < i /\ s[j].do = "copy" /\ FileOf[p] \in s[j].on
    <2>1. PICK j \in n..e : j < i /\ s[j].do = "copy" /\ FileOf[p] \in s[j].on
      BY <1>5
    <2>2. CASE j = n
      <3>1. Now(r).do = "copy" /\ Now(r).must
        BY <1>1, <1>2, <2>1, <2>2 DEF Shape, ReadsFirst, End
      <3>2. CopyFile(r)
        BY <3>1 DEF ServicesStep, CommitPart, ErasePart, LoadService, WriteSetting,
           ReadCrontab, WriteCrontab, Leave, PassStep, Takes
      <3> QED
        BY <1>2, <2>1, <2>2, <3>2 DEF CopyFile
    <2>3. CASE j # n
      BY <1>1, <2>1, <2>3
    <2> QED
      BY <2>2, <2>3
  <1>6. FileOf[p] \in copied \/ \E j \in n..e : j < i /\ s[j].do = "copy" /\ FileOf[p] \in s[j].on
    BY <1>3 DEF CopyFits
  <1> QED
    BY <1>4, <1>5, <1>6

(* It starts with nothing written. *)
LEMMA ArriveCopies ==
  ASSUME CallsInv, ServicesInv, NEW r \in Request, Arrive(r), kind[r] \in Copying
  PROVE  CopyFits(r)'
  <1>1. kind' = kind /\ kind[r] \in Scripted /\ line'[r] = 1
    BY ArriveType DEF Arrive
  <1>2. Shape(kind[r], Code(r)')
    BY <1>1, ScriptShape DEF Code
  <1> QED
    BY <1>1, <1>2 DEF CopyFits, Shape, CopiesFirst, End

(* Nobody is alone at first. *)
LEMMA CopyInvInit == Init => CopyInv
  BY DEF Init, CallsInit, CopyInv

(* CopyInv is inductive. *)
LEMMA CopyInvStep ==
  ASSUME CallsInv, ServicesInv, AskInv, CopyInv, [Next]_vars
  PROVE  CopyInv'
  <1>1. ASSUME NEW r \in Request, ServicesStep(r), Goes(r) PROVE CopyInv'
    <2>1. /\ alone' = alone /\ kind' = kind /\ Active(r)
          /\ \A q \in Request \ {r} : at'[q] = at[q]
          /\ alone \subseteq Request
      BY <1>1 DEF Goes, CallsInv
    <2>2. ASSUME NEW q \in alone, at'[q] = "script" PROVE q = r
      BY <2>1, <2>2 DEF CallsInv, Active, Over
    <2>3. CASE Arrive(r)
      BY <1>1, <2>1, <2>2, <2>3, ArriveCopies DEF CopyInv
    <2>4. CASE ~Arrive(r)
      <3>1. at[r] = "script"
        BY <1>1, <2>4, ScriptStep
      <3>2. ASSUME r \in alone, at'[r] = "script", kind[r] \in Copying PROVE CopyFits(r)'
        BY <1>1, <2>4, <3>1, <3>2, StepCopies DEF AskInv, AskFits, CopyInv
      <3> QED
        BY <2>1, <2>2, <3>2 DEF CopyInv
    <2> QED
      BY <2>3, <2>4
  <1>2. CASE Rests /\ UNCHANGED <<file, wish, line, read, copied, missed, blind>>
    <2>1. CallsInv'
      BY CallsInvStep
    <2>2. ASSUME NEW q \in alone', at'[q] = "script", kind'[q] \in Copying PROVE CopyFits(q)'
      <3>1. q \in Request /\ q \in alone /\ at[q] = "script" /\ kind' = kind
        BY <1>2, <2>1, <2>2 DEF Rests, CallsInv
      <3>2. CopyFits(q)
        BY <2>2, <3>1 DEF CopyInv
      <3>3. Code(q)' = Code(q) /\ End(q)' = End(q)
        BY <1>2, <3>1 DEF Code, End
      <3> QED
        BY <1>2, <3>1, <3>2, <3>3 DEF CopyFits
    <2> QED
      BY <2>2 DEF CopyInv
  <1> QED
    BY <1>1, <1>2, ServicesOrRests

(* What CopiedFirst says of a step. *)
LEMMA CopiedStep ==
  ASSUME CallsInv, ServicesInv, AskInv, CopyInv, [Next]_vars
  PROVE  CopiedFirstStep
  <1> SUFFICES ASSUME NEW r \in alone, NEW f \in Config, Committed(r, f),
                      kind[r] \notin {"hostnameSet", "bogon", "ipsecRules", "upsSet"}
               PROVE  f \in copied
    BY DEF CopiedFirstStep
  <1>1. PICK p \in Part : FileOf[p] = f /\ file'[p] # file[p]
    BY DEF Committed
  <1>2. ServicesStep(r) /\ ~Arrive(r)
    <2>1. PICK q \in Request : ServicesStep(q)
      BY <1>1, ServicesOrRests
    <2>2. ~Arrive(q)
      BY <1>1, <2>1 DEF Arrive
    <2>3. \E m : line' = [line EXCEPT ![q] = m]
      BY <2>1, <2>2, ScriptStep DEF Goto
    <2>4. q = r
      BY <2>3 DEF Committed, ServicesInv, ServicesType, CallsInv
    <2> QED
      BY <2>1, <2>2, <2>4
  <1>3. /\ r \in Request /\ at[r] = "script" /\ kind[r] \in Scripted
        /\ Shape(kind[r], Code(r)) /\ line[r] \in 1..End(r) /\ End(r) \in 1..11
    BY <1>2, ScriptStep, AtScript DEF CallsInv
  <1>4. CopyFits(r) /\ ReadFits(r)
    BY <1>3 DEF CopyInv, Copying, AskInv, AskFits
  <1>5. WritesAt(Code(r), line[r], p)
    BY <1>1, <1>2, <1>3, <1>4, StepWrites, CrontabIsPart DEF KeptBy
  <1>6. p \in Parts[kind[r]]
    BY <1>3, <1>5 DEF Shape, StepsFit, WritesAt, End
  <1>7. \/ FileOf[p] \in copied
        \/ \E j \in line[r]..End(r) : j < line[r]
    <2>1. line[r] \in line[r]..End(r)
      BY <1>3
    <2> QED
      BY <1>1, <1>4, <1>5, <1>6, <2>1 DEF CopyFits
  <1> QED
    BY <1>1, <1>3, <1>7

(* D-011: before a commit the config is copied, and the copy is of what    *)
(* the commit replaces, so that it can be put back; all scripted handlers  *)
(* but four keep to it (backupConfig, core/dhcp.go).                       *)
THEOREM ConfigsAreCopiedFirst == Spec => CopiedFirst
  <1> DEFINE Inv == CallsInv /\ ServicesInv /\ AskInv /\ CopyInv
  <1>1. Init => Inv
    BY CallsInvInit, ServicesInvInit, AskInvInit, CopyInvInit
  <1>2. Inv /\ [Next]_vars => Inv'
    BY CallsInvStep, ServicesInvStep, AskInvStep, CopyInvStep
  <1>3. Inv /\ [Next]_vars => [CopiedFirstStep]_vars
    BY CopiedStep
  <1> HIDE DEF Inv
  <1>4. Spec => [][CopiedFirstStep]_vars
    BY <1>1, <1>2, <1>3, PTL DEF Spec
  <1> QED
    BY <1>4, PTL DEF CopiedFirst, CopiedFirstStep

(* The sections of a VLAN are parts. *)
LEMMA NetworkIsPart == Network \subseteq Part
  BY RowSays DEF Network, PartTable

(* There is no VLAN at first. *)
LEMMA VlanInvInit == Init => VlanInv
  <1> SUFFICES ASSUME NEW s \in Scenario, CallsInit(s), ServicesInit PROVE VlanInv
    BY DEF Init
  <1> DEFINE called == UNION {Writes(k) : k \in {kind[r] : r \in Request} \cap Scripted}
             free == (called \ Network) \cup (IF called \cap Crontab = {} THEN {} ELSE Crontab)
  <1>1. \E f, l \in [free -> {None} \cup Wish], n \in {None} \cup Wish :
           file = [p \in Part |-> IF p \in free THEN f[p]
                                  ELSE IF p \in Network THEN n ELSE None]
    BY DEF ServicesInit
  <1>2. \A p \in Network : p \notin free
    BY DEF Network, Crontab
  <1> HIDE DEF called, free
  <1>3. \A p, q \in Network : file[p] = file[q]
    BY <1>1, <1>2, NetworkIsPart
  <1> QED
    BY <1>3 DEF VlanInv, VlanWhole, CallsInit, Network

(* The steps of the two handlers that write the parts of a network.        *)
LEMMA VlanSteps ==
  ASSUME ServicesInv, NEW r \in Request, at[r] = "script"
  PROVE  /\ kind[r] = "vlanCreate" =>
              /\ End(r) = 9 /\ Code(r)[4].do = "commit" /\ Code(r)[4].must
              /\ \A i \in 1..9 : /\ Code(r)[i].do \in {"copy", "commit", "load"}
                                 /\ WritesAt(Code(r), i, "vlan.network") <=> i = 4
                                 /\ WritesAt(Code(r), i, "vlan.dhcp") <=> i = 5
                                 /\ WritesAt(Code(r), i, "vlan.zone") <=> i = 6
         /\ kind[r] = "vlanDelete" =>
              /\ End(r) = 9
              /\ \A i \in 4..6 : Code(r)[i].must
              /\ \A i \in 1..9 : /\ Code(r)[i].do \in {"copy", "commit", "erase", "load"}
                                 /\ WritesAt(Code(r), i, "vlan.zone") <=> i = 4
                                 /\ WritesAt(Code(r), i, "vlan.dhcp") <=> i = 5
                                 /\ WritesAt(Code(r), i, "vlan.network") <=> i = 6
  <1>1. CASE kind[r] = "vlanCreate"
    <2> DEFINE s == VlanCreate(wish[r])
    <2>1. /\ Len(s) = 9 /\ s[4].must = TRUE
          /\ \A i \in 1..3 : s[i].do = "copy"
          /\ s[4].do = "commit" /\ s[4].on = {"vlan.network"}
          /\ s[5].do = "commit" /\ s[5].on = {"vlan.dhcp"}
          /\ s[6].do = "commit" /\ s[6].on = {"vlan.zone"}
          /\ \A i \in 7..9 : s[i].do = "load"
      BY DEF VlanCreate, Do, Copy, Commit, CommitAll, Load
    <2>2. Code(r) = s
      BY <1>1 DEF Code, Script
    <2> HIDE DEF s
    <2>3. ASSUME NEW i \in 1..9
          PROVE  /\ s[i].do \in {"copy", "commit", "load"}
                 /\ WritesAt(s, i, "vlan.network") <=> i = 4
                 /\ WritesAt(s, i, "vlan.dhcp") <=> i = 5
                 /\ WritesAt(s, i, "vlan.zone") <=> i = 6
      <3>1. i \in 1..3 \/ i = 4 \/ i = 5 \/ i = 6 \/ i \in 7..9
        OBVIOUS
      <3> QED
        BY <2>1, <3>1 DEF WritesAt, Writing
    <2> QED
      BY <1>1, <2>1, <2>2, <2>3 DEF End
  <1>2. CASE kind[r] = "vlanDelete"
    <2> DEFINE s == VlanDelete(wish[r])
    <2>1. /\ Len(s) = 9 /\ s[4].must = TRUE /\ s[5].must = TRUE /\ s[6].must = TRUE
          /\ \A i \in 1..3 : s[i].do = "copy"
          /\ s[4].do = "erase" /\ s[4].on = {"vlan.zone"}
          /\ s[5].do = "erase" /\ s[5].on = {"vlan.dhcp"}
          /\ s[6].do = "commit" /\ s[6].on = {"vlan.network"}
          /\ \A i \in 7..9 : s[i].do = "load"
      BY DEF VlanDelete, Do, Copy, Erase, Commit, CommitAll, Load
    <2>2. Code(r) = s
      BY <1>2 DEF Code, Script
    <2> HIDE DEF s
    <2>3. ASSUME NEW i \in 1..9
          PROVE  /\ s[i].do \in {"copy", "commit", "erase", "load"}
                 /\ WritesAt(s, i, "vlan.zone") <=> i = 4
                 /\ WritesAt(s, i, "vlan.dhcp") <=> i = 5
                 /\ WritesAt(s, i, "vlan.network") <=> i = 6
      <3>1. i \in 1..3 \/ i = 4 \/ i = 5 \/ i = 6 \/ i \in 7..9
        OBVIOUS
      <3> QED
        BY <2>1, <3>1 DEF WritesAt, Writing
    <2>4. \A i \in 4..6 : i = 4 \/ i = 5 \/ i = 6
      OBVIOUS
    <2> QED
      BY <1>2, <2>1, <2>2, <2>3, <2>4 DEF End
  <1> QED
    BY <1>1, <1>2

(* What a step of a script does to a network, with the line it goes to.    *)
LEMMA VlanMoves ==
  ASSUME CallsInv, ServicesInv, NEW r \in Request, ReadFits(r), ServicesStep(r), ~Arrive(r),
         kind[r] \in {"vlanCreate", "vlanDelete"}
  PROVE  /\ line[r] \in 1..9 /\ line'[r] = line[r] + 1 /\ UNCHANGED <<read, blind>>
         /\ \A p \in Network : ~WritesAt(Code(r), line[r], p) => file'[p] = file[p]
         /\ Now(r).do = "commit" /\ Now(r).must =>
              \A p \in Network : WritesAt(Code(r), line[r], p) => file'[p] = wish[r]
         /\ Now(r).do = "erase" /\ Now(r).must =>
              \A p \in Network : WritesAt(Code(r), line[r], p) =>
                 file'[p] = IF read[r][p] = None THEN file[p] ELSE None
  <1>1. at[r] = "script" /\ line[r] \in 1..End(r) /\ Now(r) = Code(r)[line[r]]
    BY ScriptStep, AtScript DEF Now
  <1>2. line[r] \in 1..9 /\ Now(r).do \in {"copy", "commit", "erase", "load"}
    BY <1>1, VlanSteps
  <1>3. line'[r] = line[r] + 1
    <2>1. PICK m : Goto(r, m) /\ (~(Takes(r, "stop") \/ Takes(r, "skip")) => m = line[r] + 1)
      BY ScriptStep
    <2>2. m = line[r] + 1
      BY <1>2, <2>1 DEF Takes
    <2> QED
      BY <2>1, <2>2 DEF Goto, ServicesInv, ServicesType
  <1>4. UNCHANGED <<read, blind>>
    BY <1>2 DEF ServicesStep, CopyFile, CommitPart, ErasePart, LoadService, WriteSetting,
       ReadCrontab, WriteCrontab, Leave, PassStep, Takes
  <1>5. \A p \in Network : ~WritesAt(Code(r), line[r], p) => file'[p] = file[p]
    BY NetworkIsPart, StepWrites, CrontabIsPart DEF KeptBy
  <1>6. file \in [Part -> Wish \cup {None}]
    BY DEF ServicesInv, ServicesType
  <1>7. ASSUME Now(r).do = "commit", Now(r).must, NEW p \in Network,
               WritesAt(Code(r), line[r], p)
        PROVE  file'[p] = wish[r]
    <2>1. CommitPart(r)
      BY <1>7 DEF ServicesStep, CopyFile, ErasePart, LoadService, WriteSetting,
         ReadCrontab, WriteCrontab, Leave, PassStep, Takes
    <2> QED
      BY <1>1, <1>7, <2>1, NetworkIsPart DEF CommitPart, WriteTo, WritesAt
  <1>8. ASSUME Now(r).do = "erase", Now(r).must, NEW p \in Network,
               WritesAt(Code(r), line[r], p)
        PROVE  file'[p] = IF read[r][p] = None THEN file[p] ELSE None
    <2>1. ErasePart(r)
      BY <1>8 DEF ServicesStep, CopyFile, CommitPart, LoadService, WriteSetting,
         ReadCrontab, WriteCrontab, Leave, PassStep, Takes
    <2>2. p = Subject(r)
      BY <1>1, <1>8, SubjectIs DEF WritesAt
    <2> QED
      BY <1>6, <2>1, <2>2, NetworkIsPart DEF ErasePart, WriteTo
  <1> QED
    BY <1>2, <1>3, <1>4, <1>5, <1>7, <1>8

(* A line of a script, from VLANs that are whole or being changed. *)
LEMMA VlanStep ==
  ASSUME CallsInv, ServicesInv, NEW r \in Request, ReadFits(r), VlanFits(r),
         ~blind => VlanWhole, ServicesStep(r), ~Arrive(r)
  PROVE  (~blind' => VlanWhole') /\ VlanFits(r)'
  <1>1. /\ at[r] = "script" /\ kind' = kind /\ kind[r] \in Scripted
        /\ kind[r] = "vlanCreate" => wish[r] \in Wish
        /\ kind[r] = "vlanDelete" => wish[r] = None
        /\ Now(r) = Code(r)[line[r]]
    BY ScriptStep, AtScript DEF ServicesInv, LineFits, Now
  <1>2. CASE kind[r] = "vlanCreate"
    <2>1. /\ line[r] \in 1..9 /\ line'[r] = line[r] + 1 /\ UNCHANGED <<read, blind>>
          /\ line[r] # 4 => file'["vlan.network"] = file["vlan.network"]
          /\ line[r] # 5 => file'["vlan.dhcp"] = file["vlan.dhcp"]
          /\ line[r] # 6 => file'["vlan.zone"] = file["vlan.zone"]
      BY <1>1, <1>2, VlanMoves, VlanSteps DEF Network
    <2>2. line[r] = 4 => file'["vlan.network"] = wish[r]
      BY <1>1, <1>2, VlanMoves, VlanSteps DEF Network
    <2>3. line[r] > 3 => file'["vlan.network"] # None
      BY <1>1, <1>2, <2>1, <2>2, ServicesAssumption DEF VlanFits
    <2> QED
      BY <1>1, <1>2, <2>1, <2>3 DEF VlanWhole, VlanFits
  <1>3. CASE kind[r] = "vlanDelete"
    <2>1. /\ line[r] \in 1..9 /\ line'[r] = line[r] + 1 /\ UNCHANGED <<read, blind>>
          /\ line[r] # 4 => file'["vlan.zone"] = file["vlan.zone"]
          /\ line[r] # 5 => file'["vlan.dhcp"] = file["vlan.dhcp"]
          /\ line[r] # 6 => file'["vlan.network"] = file["vlan.network"]
      BY <1>1, <1>3, VlanMoves, VlanSteps DEF Network
    <2>2. /\ WritesAt(Code(r), 4, "vlan.zone") /\ WritesAt(Code(r), 5, "vlan.dhcp")
          /\ Code(r)[4].must /\ Code(r)[5].must
          /\ Code(r)[4].do \in {"commit", "erase"} /\ Code(r)[5].do \in {"commit", "erase"}
      BY <1>1, <1>3, VlanSteps DEF WritesAt, Writing
    <2>3. ~blind /\ line[r] = 4 => file'["vlan.zone"] = None
      BY <1>1, <1>3, <2>2, VlanMoves DEF Network, VlanFits
    <2>4. ~blind /\ line[r] = 5 => file'["vlan.dhcp"] = None
      BY <1>1, <1>3, <2>2, VlanMoves DEF Network, VlanFits
    <2>5. VlanFits(r)'
      BY <1>1, <1>3, <2>1, <2>3, <2>4 DEF VlanFits
    <2>6. ASSUME ~blind PROVE VlanWhole'
      <3>1. line[r] > 5 => file'["vlan.zone"] = None /\ file'["vlan.dhcp"] = None
        BY <1>3, <2>1, <2>6 DEF VlanFits
      <3> QED
        BY <2>1, <2>3, <2>4, <2>6, <3>1 DEF VlanWhole
    <2> QED
      BY <2>1, <2>5, <2>6
  <1>4. CASE kind[r] \notin {"vlanCreate", "vlanDelete"}
    <2>1. \A p \in Network : file'[p] = file[p]
      <3>1. Parts[kind[r]] \cap Network = {}
        BY <1>1, <1>4 DEF Parts, Network, Scripted
      <3>2. ASSUME NEW p \in Network PROVE ~WritesAt(Code(r), line[r], p)
        BY <1>1, <3>1, AtScript DEF Shape, StepsFit, WritesAt, End
      <3> QED
        BY <3>2, NetworkIsPart, StepWrites, CrontabIsPart DEF KeptBy
    <2>2. blind' = blind
      BY DEF ServicesStep, CopyFile, CommitPart, ErasePart, LoadService, WriteSetting,
         ReadCrontab, WriteCrontab, Leave, PassStep
    <2> QED
      BY <1>1, <1>4, <2>1, <2>2 DEF VlanWhole, VlanFits, Network
  <1> QED
    BY <1>2, <1>3, <1>4

(* A script starts with whole VLANs. *)
LEMMA ArriveVlan ==
  ASSUME CallsInv, ServicesInv, NEW r \in Request, Arrive(r), ~blind => VlanWhole
  PROVE  (~blind' => VlanWhole') /\ VlanFits(r)'
  <1>1. file' = file /\ kind' = kind /\ line'[r] = 1 /\ (blind => blind')
    BY ArriveType DEF Arrive
  <1>2. ASSUME kind[r] = "vlanDelete", ~blind', NEW p \in Network
        PROVE  read'[r][p] = file[p]
    <2>1. PICK gone :
             /\ read' = [read EXCEPT ![r] = Only(Network \ gone)]
             /\ blind' = (blind \/ gone # {})
      BY <1>2 DEF Arrive
    <2>2. read'[r] = Only(Network)
      BY <1>2, <2>1 DEF ServicesInv, ServicesType
    <2> QED
      BY <1>2, <2>2, NetworkIsPart DEF Only
  <1> QED
    BY <1>1, <1>2 DEF VlanWhole, VlanFits, Network

(* VlanInv is inductive. *)
LEMMA VlanInvStep ==
  ASSUME CallsInv, ServicesInv, AskInv, VlanInv, [Next]_vars
  PROVE  VlanInv'
  <1> SUFFICES ASSUME InTurn'
               PROVE  /\ ~blind' => VlanWhole'
                      /\ \A r \in Request : at'[r] = "script" => VlanFits(r)'
    BY DEF VlanInv
  <1>1. /\ InTurn /\ (~blind => VlanWhole)
        /\ \A r \in Request : at[r] = "script" => VlanFits(r)
    BY CallsInvStep DEF VlanInv
  <1>2. ASSUME NEW r \in Request, ServicesStep(r), Goes(r)
        PROVE  /\ ~blind' => VlanWhole'
               /\ \A q \in Request : at'[q] = "script" => VlanFits(q)'
    <2>1. /\ Active(r) /\ r \in alone /\ \A q \in Request \ {r} : at'[q] = at[q]
      BY <1>1, <1>2 DEF Goes, CallsInv, InTurn, Active, Began
    <2>2. ASSUME NEW q \in Request, at'[q] = "script" PROVE q = r
      BY <2>1, <2>2 DEF CallsInv, Active, Over
    <2>3. CASE Arrive(r)
      BY <1>1, <1>2, <2>2, <2>3, ArriveVlan
    <2>4. CASE ~Arrive(r)
      <3>1. at[r] = "script"
        BY <1>2, <2>4, ScriptStep
      <3>2. ReadFits(r)
        BY <2>1, <3>1 DEF AskInv, AskFits
      <3> QED
        BY <1>1, <1>2, <2>2, <2>4, <3>1, <3>2, VlanStep
    <2> QED
      BY <2>3, <2>4
  <1>3. ASSUME Rests, UNCHANGED <<file, wish, line, read, copied, missed, blind>>
        PROVE  /\ ~blind' => VlanWhole'
               /\ \A q \in Request : at'[q] = "script" => VlanFits(q)'
    BY <1>1, <1>3 DEF Rests, VlanWhole, VlanFits
  <1> QED
    BY <1>2, <1>3, ServicesOrRests

(* As long as requests come one at a time, a network of which anything is  *)
(* in the files can be deleted: whatever fails or crashes, its interface   *)
(* is the first of it to come and the last to go (handleVlanCreate,        *)
(* handleVlanDelete, core/vlan.go).  A failed read taken for an empty file *)
(* excepted.                                                               *)
THEOREM AVlanCanAlwaysGo == Spec => []VlanCanGo
  <1> DEFINE Inv == CallsInv /\ ServicesInv /\ AskInv /\ VlanInv
  <1>1. Init => Inv
    BY CallsInvInit, ServicesInvInit, AskInvInit, VlanInvInit
  <1>2. Inv /\ [Next]_vars => Inv'
    BY CallsInvStep, ServicesInvStep, AskInvStep, VlanInvStep
  <1>3. Inv => VlanCanGo
    BY DEF VlanInv, VlanWhole, VlanCanGo
  <1> HIDE DEF Inv
  <1> QED
    BY <1>1, <1>2, <1>3, PTL DEF Spec
=============================================================================
