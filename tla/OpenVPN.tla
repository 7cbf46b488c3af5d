------------------------------ MODULE OpenVPN ------------------------------
(***************************************************************************)
(* OpenVPN in saguaro-core (core/openvpn.go): its own certificate          *)
(* authority, the clients with their certificates, the list of revoked     *)
(* ones (crl.pem), one file per client that may connect (ccd), the list of *)
(* users with a password, and the firewall sections with their rules.      *)
(* Keys are known by the request that generated them, certificates by the  *)
(* row they were issued for.  The server reads crl.pem, ccd and users at   *)
(* every connection, so they need no reload.  Signing is external.         *)
(***************************************************************************)
EXTENDS VpnCalls

CONSTANTS
  Client,      \* rows: each creation makes a row and a certificate of its own
  NameOf,      \* [Client -> names]: the name in the certificate
  Begun,       \* in a file: it was opened, and nothing whole is in it yet
  Mixed        \* in a file: parts of what two requests wrote

VARIABLES
  ovpnSet,     \* section sag_server is in /etc/config/openvpn
  pki,         \* what each file of the directory ovpn holds
  signer,      \* local: the key a request has read from ca.key to sign with
  client,      \* table ovpn_clients, with ovpn_client_rules
  revoked,     \* table ovpn_revoked
  ccd,         \* directory ccd: names with their addresses
  users,       \* file users: names with a password
  told,        \* clients whose revocation was confirmed (history)
  crossed,     \* what two requests were making at once (history)
  blind,       \* requests that sign a list not all of what is revoked by
               \* then: it was not read, or another read it later (history)
  crlBy        \* who wrote crl.pem last (history)

pkiVars   == <<pki, signer, crossed>>
crlVars   == <<revoked, told, blind, crlBy>>
ovpnFiles == <<ccd, users>>
ovpnVars  == <<ovpnSet, client, pkiVars, crlVars, ovpnFiles>>

(* ca.key, ca.crt, server.key, server.crt and crl.pem. *)
PkiFile == {"caKey", "caCrt", "srvKey", "srvCrt", "crl"}

ServerCert == [ca : Key, key : Key]
RevokedList == [ca : Key, out : SUBSET Client]

(* No certificate can be read from such a file, though it may be there. *)
Unreadable == {None, Begun, Mixed}
Readable(file) == file \notin Unreadable

ClientRow ==
  [ip : Asked, on : BOOLEAN, rule : BOOLEAN, pass : BOOLEAN, ca : Key]

(* A client there at first has a certificate of the authority that is      *)
(* there, and a name of its own, as the table demands.                     *)
ASSUME OpenVPNAssumption ==
  /\ None \notin Client
  /\ Unreadable \cap (Key \cup ServerCert \cup RevokedList) = {}
  /\ None # Begun /\ None # Mixed /\ Begun # Mixed
  /\ \A s \in Scenario :
        /\ s.clients \in [Client -> ClientRow \cup {None}]
        /\ \A c \in Client : s.clients[c] # None =>
              /\ s.setUp /\ s.clients[c].ca = Old
              /\ \A d \in Client \ {c} :
                    s.clients[d] # None => NameOf[d] # NameOf[c]

SetUpFiles(k) == [caKey |-> k, caCrt |-> k, srvKey |-> k,
                  srvCrt |-> [ca |-> k, key |-> k], crl |-> [ca |-> k, out |-> {}]]

OpenVPNInit(s) ==
  /\ ovpnSet = s.setUp
  /\ pki = IF s.setUp THEN SetUpFiles(Old) ELSE [f \in PkiFile |-> None]
  /\ signer = [r \in Request |-> None]
  /\ client = s.clients
  /\ revoked = {} /\ told = {} /\ ccd = {} /\ users = {}
  /\ crossed = {} /\ blind = {} /\ crlBy = None

Clients == {c \in Client : client[c] # None}
Enabled == {c \in Clients : client[c].on}

----------------------------------------------------------------------------
(* ensureOvpnPKI: the files of the authority are made if its certificate   *)
(* is not there, then those of the server.  Each file is opened, which     *)
(* empties it, and then filled; a failure or a restart in between leaves   *)
(* it as it is, and whether it is there is all that is looked at later.    *)
(* Steps are named for the file they open or fill.                         *)

MakingCA == {"caKey", "caKeyFill", "caCrt", "caCrtFill"}
MakingServer == {"srvKey", "srvKeyFill", "srvCrt", "srvCrtFill"}
MakingCRL == {"crl", "crlFill"}

(* Another request is making them already, and they are made once more. *)
Crosses(r, making) == \E q \in Request \ {r} : at[q] \in making

OtherPki == <<configVars, crashes, ovpnSet, client, crlVars, ovpnFiles>>

(* Mutant: the authority is made anew at every call. *)
MakeAnotherCA(r) ==
  /\ kind[r] \in {"oServer", "oCreate"} /\ Step(r, "pki", "caKey")
  /\ crossed' = IF Crosses(r, MakingCA) THEN crossed \cup {"ca"} ELSE crossed
  /\ NoLocals /\ UNCHANGED <<pki, signer>> /\ UNCHANGED OtherPki

LookForCA(r) ==
  LET missing == pki.caCrt = None IN
  /\ kind[r] \in {"oServer", "oCreate"}
  /\ Step(r, "pki", IF missing THEN "caKey" ELSE "srv")
  /\ crossed' = IF missing /\ Crosses(r, MakingCA) THEN crossed \cup {"ca"}
                                                   ELSE crossed
  /\ NoLocals /\ UNCHANGED <<pki, signer>> /\ UNCHANGED OtherPki

(* Go refuses to sign with a key that is not the certificate's. *)
CanSign == Readable(pki.caCrt) /\ pki.caKey = pki.caCrt

LookForServer(r) ==
  LET missing == pki.srvCrt = None IN
  /\ Step(r, "srv", IF ~missing THEN "crlRead"
                    ELSE IF CanSign THEN "srvKey" ELSE "failed")
  /\ signer' = IF missing /\ CanSign THEN Remember(signer, r, pki.caKey)
                                     ELSE signer
  /\ crossed' = IF missing /\ Crosses(r, MakingServer)
                  THEN crossed \cup {"server"} ELSE crossed
  /\ NoLocals /\ UNCHANGED pki /\ UNCHANGED OtherPki

Opened(file, r, l, m) ==
  Step(r, l, m) /\ pki' = [pki EXCEPT ![file] = Begun]

(* A file that holds another's by now ends as either or as parts of both. *)
Filled(file, r, whole, l, m) ==
  /\ Step(r, l, m)
  /\ \E x \in {whole} \cup (IF pki[file] = Begun THEN {} ELSE {Mixed}) :
        pki' = [pki EXCEPT ![file] = x]

OpenFile(r) ==
  /\ \/ Opened("caKey", r, "caKey", "caKeyFill")
     \/ Opened("caCrt", r, "caCrt", "caCrtFill")
     \/ Opened("srvKey", r, "srvKey", "srvKeyFill")
     \/ Opened("srvCrt", r, "srvCrt", "srvCrtFill")
     \/ Opened("crl", r, "crl", "crlFill")
  /\ NoLocals /\ UNCHANGED <<signer, crossed>> /\ UNCHANGED OtherPki

FillFile(r) ==
  /\ \/ Filled("caKey", r, r, "caKeyFill", "caCrt")
     \/ Filled("caCrt", r, r, "caCrtFill", "srv")
     \/ Filled("srvKey", r, r, "srvKeyFill", "srvCrt")
     \/ Filled("srvCrt", r, [ca |-> signer[r], key |-> r], "srvCrtFill", "crlRead")
  /\ NoLocals /\ UNCHANGED <<signer, crossed>> /\ UNCHANGED OtherPki

(* writeOvpnCRL reads key and certificate, then the table: rows it cannot  *)
(* read are left out without an error.  Whether the key fits is not asked. *)
ReadRevoked(r) ==
  LET able == Readable(pki.caCrt) /\ Readable(pki.caKey) IN
  /\ Step(r, "crlRead", IF able THEN "crl" ELSE "failed")
  /\ \E some \in SUBSET revoked :
        /\ rows' = Remember(rows, r, some)
        /\ blind' = blind \cup {q \in Request \ {r} : at[q] \in MakingCRL}
                          \cup (IF some = revoked THEN {} ELSE {r})
  /\ signer' = IF able THEN Remember(signer, r, pki.caKey) ELSE signer
  /\ UNCHANGED <<kind, who, asks, seen, alone, configVars, crashes, ovpnSet,
                 client, pki, crossed, revoked, told, crlBy, ovpnFiles>>

AfterCRL(r) == CASE kind[r] = "oServer" -> "commit"
                 [] kind[r] = "oCreate" -> "insert"
                 [] OTHER -> "done"

WriteCRL(r) ==
  /\ Filled("crl", r, [ca |-> signer[r], out |-> rows[r]], "crlFill", AfterCRL(r))
  /\ told' = told \cup (IF kind[r] = "oDelete" THEN {who[r]} ELSE {})
  /\ crlBy' = r
  /\ NoLocals
  /\ UNCHANGED <<configVars, crashes, ovpnSet, client, signer, crossed, revoked,
                 blind, ovpnFiles>>

----------------------------------------------------------------------------
(* handleOvpnServerSet, after the certificates: the openvpn and network    *)
(* files, then the firewall, which is read to see which access is in force.*)

ServerStart(r) ==
  /\ kind[r] = "oServer" /\ Step(r, "start", "pki")
  /\ \E allow \in BOOLEAN :
        seen' = Remember(seen, r, IF allow THEN {"mgmt"} ELSE {})
  /\ UNCHANGED <<kind, who, asks, rows, alone, configVars, crashes, ovpnVars>>

ServerCommit(r) ==
  /\ kind[r] = "oServer" /\ Step(r, "commit", "fwRead")
  /\ ovpnSet' = TRUE
  /\ NoLocals
  /\ UNCHANGED <<configVars, crashes, client, pkiVars, crlVars, ovpnFiles>>

ServerReadFirewall(r) ==
  /\ kind[r] = "oServer" /\ Step(r, "fwRead", "fwCommit")
  /\ ReadFirewall(r)
  /\ UNCHANGED <<kind, who, asks, alone, configVars, crashes, ovpnVars>>

(* Full access the first time, and again where it is in force. *)
ServerForwards(file) ==
  IF Zone("ovpn") \notin file \/ Full("ovpn") \in file
    THEN {Full("ovpn")} ELSE {}

ServerFirewall(r) ==
  /\ kind[r] = "oServer" /\ Step(r, "fwCommit", "reload")
  /\ fwFile' = ZoneInput(fwFile, rows[r], "ovpn", "mgmt" \in seen[r])
                 \cup ServerForwards(rows[r])
  /\ NoLocals /\ UNCHANGED <<fwRun, netFile, netRun, crashes, ovpnVars>>

(* handleOvpnAccessSet: the two forwardings are set or deleted. *)
AccessRead(r) ==
  /\ kind[r] = "oAccess"
  /\ \E mode \in {"full", "restricted"} :
        /\ Step(r, "start", IF mode = "full" \/ Full("ovpn") \in fwFile
                              THEN "access" ELSE "done")
        /\ rows' = Remember(rows, r, IF mode = "full" THEN {Full("ovpn")}
                                                      ELSE {})
  /\ UNCHANGED <<kind, who, asks, seen, alone, configVars, crashes, ovpnVars>>

AccessCommit(r) ==
  /\ kind[r] = "oAccess" /\ Step(r, "access", "reload")
  /\ fwFile' = (fwFile \ {Full("ovpn")}) \cup rows[r]
  /\ NoLocals /\ UNCHANGED <<fwRun, netFile, netRun, crashes, ovpnVars>>

----------------------------------------------------------------------------
(* Clients.  Validation looks for the address in the table; the row is     *)
(* inserted a few steps later, and the table refuses a second owner.       *)

Unique(c, ip) ==
  \A d \in Clients \ {c} : client[d].ip # ip /\ NameOf[d] # NameOf[c]

NewClient(r) ==
  /\ kind[r] = "oCreate" /\ Step(r, "start", "pki")
  /\ \E c \in Client \ (Clients \cup revoked), ip \in Asked :
        /\ \A q \in Request : who[q] # c
        /\ Acceptable(ovpnSet, ip)
        /\ \A d \in Clients : client[d].ip # ip
        /\ who' = Remember(who, r, c) /\ asks' = Remember(asks, r, ip)
  /\ UNCHANGED <<kind, rows, seen, alone, configVars, crashes, ovpnVars>>

(* Two requests may have asked for one address; the second finds it taken. *)
InsertClient(r) ==
  LET c == who[r] IN
  /\ kind[r] = "oCreate" /\ at[r] = "insert"
  /\ IF CanSign /\ Unique(c, asks[r])
       THEN /\ Step(r, "insert", "done")
            /\ \E on, pass \in BOOLEAN :
                 client' = [client EXCEPT ![c] =
                   [ip |-> asks[r], on |-> on, rule |-> FALSE, pass |-> pass,
                    ca |-> pki.caCrt]]
       ELSE Step(r, "insert", "failed") /\ UNCHANGED client
  /\ NoLocals
  /\ UNCHANGED <<configVars, crashes, ovpnSet, pkiVars, crlVars, ovpnFiles>>

OtherClients == <<configVars, crashes, ovpnSet, pkiVars, crlVars, ovpnFiles>>

(* The name and the certificate stay; the rest of the row may change. *)
UpdateClient(r) ==
  /\ kind[r] = "oUpdate" /\ Step(r, "start", "done")
  /\ \E c \in Clients, ip \in Asked, on, pass \in BOOLEAN :
        /\ Acceptable(ovpnSet, ip) /\ Unique(c, ip)
        /\ client' = [client EXCEPT ![c].ip = ip, ![c].on = on,
                                    ![c].pass = pass]
  /\ NoLocals /\ UNCHANGED OtherClients

SetClientRule(r) ==
  /\ kind[r] = "oUpdate" /\ Step(r, "start", "done")
  /\ \E c \in Clients, rule \in BOOLEAN :
        client' = [client EXCEPT ![c].rule = rule]
  /\ NoLocals /\ UNCHANGED OtherClients

(* Mutant: the row is deleted first. *)
DeleteFirst(r) ==
  /\ kind[r] = "oDelete" /\ Step(r, "start", "delete")
  /\ \E c \in Clients : /\ who' = Remember(who, r, c)
                        /\ client' = [client EXCEPT ![c] = None]
  /\ UNCHANGED <<kind, asks, rows, seen, alone, configVars, crashes, ovpnSet,
                 pkiVars, crlVars, ovpnFiles>>

(* handleOvpnClientDelete: the certificate is entered as revoked, the row  *)
(* is deleted (its rules with it), and crl.pem is made anew.               *)
Revoke(r) ==
  /\ kind[r] = "oDelete" /\ Step(r, "start", "delete")
  /\ \E c \in Clients : who' = Remember(who, r, c) /\ revoked' = revoked \cup {c}
  /\ UNCHANGED <<kind, asks, rows, seen, alone, configVars, crashes, ovpnSet,
                 client, pkiVars, told, blind, crlBy, ovpnFiles>>

DeleteClient(r) ==
  /\ kind[r] = "oDelete" /\ Step(r, "delete", "crlRead")
  /\ client' = [client EXCEPT ![who[r]] = None]
  /\ NoLocals /\ UNCHANGED OtherClients

----------------------------------------------------------------------------
(* handleOvpnApply: the file of users, the enabled clients, the directory  *)
(* ccd emptied and filled again, then the firewall sections of the rules.  *)

WriteUsers(r) ==
  /\ kind[r] = "oApply" /\ ovpnSet /\ Step(r, "start", "clients")
  /\ users' = {NameOf[c] : c \in {c \in Enabled : client[c].pass}}
  /\ NoLocals
  /\ UNCHANGED <<configVars, crashes, ovpnSet, client, pkiVars, crlVars, ccd>>

(* Mutant: disabled clients too. *)
ReadAllClients(r) ==
  /\ kind[r] = "oApply" /\ Step(r, "clients", "clear")
  /\ rows' = Remember(rows, r, {<<NameOf[c], client[c].ip>> : c \in Clients})
  /\ UNCHANGED <<kind, who, asks, seen, alone, configVars, crashes, ovpnVars>>

ReadClients(r) ==
  /\ kind[r] = "oApply" /\ Step(r, "clients", "clear")
  /\ rows' = Remember(rows, r, {<<NameOf[c], client[c].ip>> : c \in Enabled})
  /\ UNCHANGED <<kind, who, asks, seen, alone, configVars, crashes, ovpnVars>>

ClearCCD(r) ==
  /\ kind[r] = "oApply" /\ Step(r, "clear", "ccd")
  /\ ccd' = {}
  /\ NoLocals
  /\ UNCHANGED <<configVars, crashes, ovpnSet, client, pkiVars, crlVars, users>>

(* Files are written in the order of the addresses. *)
WriteCCD(r) ==
  /\ kind[r] = "oApply" /\ Step(r, "ccd", "ccd")
  /\ \E f \in rows[r] :
        /\ \A g \in rows[r] : f[2] <= g[2]
        /\ ccd' = {g \in ccd : g[1] # f[1]} \cup {f}
        /\ rows' = Remember(rows, r, rows[r] \ {f})
  /\ UNCHANGED <<kind, who, asks, seen, alone, configVars, crashes, ovpnSet,
                 client, pkiVars, crlVars, users>>

ClientRules == {<<"or", c, client[c].ip>> : c \in {c \in Enabled : client[c].rule}}

ReadClientRules(r) ==
  /\ kind[r] = "oApply" /\ rows[r] = {} /\ Step(r, "ccd", "seen")
  /\ rows' = Remember(rows, r, ClientRules)
  /\ UNCHANGED <<kind, who, asks, seen, alone, configVars, crashes, ovpnVars>>

ReadClientSections(r) ==
  /\ kind[r] = "oApply" /\ Step(r, "seen", "rules")
  /\ seen' = Remember(seen, r, Owners(fwFile, "or"))
  /\ UNCHANGED <<kind, who, asks, rows, alone, configVars, crashes, ovpnVars>>

WriteClientRules(r) ==
  /\ kind[r] = "oApply" /\ Step(r, "rules", "reload")
  /\ fwFile' = Batch(fwFile, "or", seen[r], rows[r])
  /\ NoLocals /\ UNCHANGED <<fwRun, netFile, netRun, crashes, ovpnVars>>

(* The reload of the firewall ends each of the handlers above. *)
OpenVPNReload(r) ==
  /\ kind[r] \in {"oServer", "oAccess", "oApply"} /\ Step(r, "reload", "done")
  /\ LoadFirewall
  /\ NoLocals /\ UNCHANGED <<fwFile, netFile, netRun, crashes, ovpnVars>>

PKIStep(r) ==
  \/ LookForCA(r) \/ LookForServer(r) \/ OpenFile(r) \/ FillFile(r)
  \/ ReadRevoked(r) \/ WriteCRL(r)

OpenVPNStep(r) ==
  \/ PKIStep(r)
  \/ ServerStart(r) \/ ServerCommit(r) \/ ServerReadFirewall(r)
  \/ ServerFirewall(r) \/ AccessRead(r) \/ AccessCommit(r)
  \/ NewClient(r) \/ InsertClient(r) \/ UpdateClient(r) \/ SetClientRule(r)
  \/ Revoke(r) \/ DeleteClient(r)
  \/ WriteUsers(r) \/ ReadClients(r) \/ ClearCCD(r) \/ WriteCCD(r)
  \/ ReadClientRules(r) \/ ReadClientSections(r) \/ WriteClientRules(r)
  \/ OpenVPNReload(r)

PkiType ==
  /\ DOMAIN pki = PkiFile
  /\ {pki.caKey, pki.caCrt, pki.srvKey} \subseteq Key \cup Unreadable
  /\ pki.srvCrt \in ServerCert \cup Unreadable
  /\ pki.crl \in RevokedList \cup Unreadable

OpenVPNType ==
  /\ ovpnSet \in BOOLEAN /\ PkiType
  /\ signer \in [Request -> Key \cup {None}]
  /\ \A c \in Client : client[c] = None \/ client[c] \in ClientRow
  /\ revoked \subseteq Client /\ told \subseteq Client
  /\ crossed \subseteq {"ca", "server"}
  /\ blind \subseteq Request /\ crlBy \in Request \cup {None}
  /\ \A f \in ccd : f[2] \in Asked
=============================================================================
