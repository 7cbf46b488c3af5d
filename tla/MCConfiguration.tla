-------------------------- MODULE MCConfiguration --------------------------
(* Small instances of Configuration: a scenario of two or three calls for   *)
(* each hazard.                                                            *)
EXTENDS Configuration

CONSTANTS r1, r2, r3, h1, h2, w1

MCKind == {"recordSave", "recordDelete", "splitSave", "splitDelete",
           "forwardSave", "forwardDelete", "namesApply", "dnssecOn",
           "dnssecOff", "upstream", "siteSave", "siteDelete", "install",
           "proxyApply", "guiSet", "guiIssue", "acmeIssue"} \cup Scripted

MCDomain == {"tvrtka.hr"}
MCAddress == {"10.0.0.1"}
MCRecord == {"nas"}
MCAnycast == {"1.1.1.1", "8.8.8.8"}
MCPreset == {{}, {"1.1.1.1", "1.0.0.1"}, {"1.1.1.3", "1.0.0.3"}}
MCByHand == {<<"ured.lan", "10.0.0.9">>}

Calls3(a, b, c) == [r \in Request |->
  CASE r = r1 -> a [] r = r2 -> b [] OTHER -> c]

NoSites == [h \in Host |-> None]

Bare(calls) ==
  [calls |-> calls, record |-> [d \in Record |-> None],
   split |-> [d \in Domain |-> None], forward |-> [d \in Domain |-> None],
   server |-> {}, dnssec |-> FALSE, added |-> FALSE,
   site |-> NoSites, guiHost |-> None, issued |-> {}, proxy |-> None,
   ports |-> {}]

Row == [ip |-> "10.0.0.1", on |-> TRUE]
Split(calls) == [Bare(calls) EXCEPT !.split = [d \in Domain |-> Row]]
Forward(calls) == [Bare(calls) EXCEPT !.forward = [d \in Domain |-> Row]]

Site(on, acmeSite) == [on |-> on, acme |-> acmeSite]
Published(calls) == [Bare(calls) EXCEPT !.proxy = {},
  !.site = [h \in Host |-> IF h = h1 THEN Site(TRUE, TRUE) ELSE None]]
Named(calls) == [Bare(calls) EXCEPT !.guiHost = h1, !.issued = Host,
                                    !.ports = {"gui"}]

Alone == {Bare(Calls3(k, None, None)) : k \in Scripted}
Beside == {<<"vlanCreate", "vlanDelete">>, <<"bogon", "icmpLimit">>,
           <<"logStoreSet", "backupSchedule">>}

MCScenarios == Alone \cup {Bare(Calls3(c[1], c[2], None)) : c \in Beside} \cup {
  Bare(Calls3("recordSave", "namesApply", "recordDelete")),
  Split(Calls3("namesApply", "splitDelete", "namesApply")),
  Split(Calls3("splitSave", "forwardSave", "namesApply")),
  Forward(Calls3("namesApply", "forwardDelete", "namesApply")),
  Forward(Calls3("forwardSave", "namesApply", None)),
  Bare(Calls3("dnssecOn", "upstream", "dnssecOff")),
  Bare(Calls3("upstream", "namesApply", "dnssecOff")),
  Bare(Calls3("install", "siteSave", "proxyApply")),
  Published(Calls3("proxyApply", "siteDelete", "proxyApply")),
  Published(Calls3("proxyApply", "guiSet", None)),
  Published(Calls3("proxyApply", "acmeIssue", None)),
  Named(Calls3("guiSet", "guiIssue", None)),
  [Named(Calls3("guiSet", "proxyApply", None)) EXCEPT !.proxy = {},
     !.site = [h \in Host |-> IF h = h2 THEN Site(TRUE, FALSE) ELSE None]]}
=============================================================================
