---------------------------- MODULE CertManager ----------------------------
(***************************************************************************)
(* manageTLS of pkg/controller/certificates.go: one pass validates the     *)
(* issuer reference, then for the server, client and exporter-client       *)
(* certificates in turn creates or patches the cert-manager Certificate,   *)
(* emits an event when it changed, and once cert-manager has issued the    *)
(* certificate's Secret adds the Certificate and the MySQL object as owners *)
(* of that Secret.  checkTLSCerts is the readiness gate run after a pass.  *)
(*                                                                         *)
(* A pass runs one API call per step, so cert-manager issuing Secrets, the *)
(* user editing spec.tls, the user deleting a Secret and the Service       *)
(* getting its load-balancer ingress interleave with it.  A failed call    *)
(* ends the pass with an error; the outer reconcile loop starts a new one. *)
(***************************************************************************)
EXTENDS Naturals, Sequences, FiniteSets

CONSTANTS
    BadKind,          \* an issuerRef.kind that is neither Issuer nor ClusterIssuer
    NoCert,           \* no Certificate object
    Absent,           \* no Secret / no Service object
    MaxFaults,        \* bound on failed API calls
    MaxEdits,         \* bound on user edits of spec.tls
    MaxSecretDeletes  \* bound on user deletions of issued Secrets

Kinds == {"Issuer", "ClusterIssuer", BadKind}
Purposes == <<"server", "client", "exporter">>
PurposeSet == {"server", "client", "exporter"}

\* Abstract SAN values: the service URL "<name>.<ns>.svc", "localhost", the
\* load balancer's hostname, a user-supplied DNS name; 127.0.0.1, the load
\* balancer's IP, a user-supplied IP.
DNSVals == {"svcURL", "localhost", "lbHost", "userDNS"}
IPVals  == {"loopback", "lbIP", "userIP"}
Orgs    == {"kubedb:server", "userOrg"}
Usages  == {"digitalSignature", "keyEncipherment", "serverAuth", "clientAuth"}

\* spec.tls: the issuer kind and whether spec.tls.certificate is set (it
\* carries DNSNames {userDNS}, IPAddresses {userIP}, Organization {userOrg},
\* Duration, RenewBefore and URISANs).
TLSSpecs == [kind : Kinds, overrides : BOOLEAN]

\* service.Status.LoadBalancer.Ingress: no item, or one item with a hostname,
\* an IP, or both.
Ingress == {"none", "host", "ip", "both"}

CertSpec == [cn : {"svcURL"}, dns : SUBSET DNSVals,
             ips : SUBSET (DNSVals \cup IPVals), org : SUBSET Orgs,
             extra : BOOLEAN, usages : SUBSET Usages, issuer : Kinds]

VARIABLES
    tls,        \* mysql.Spec.TLS as stored
    issuers,    \* issuer kinds for which the named issuer exists
    service,    \* the MySQL Service's ingress, or Absent
    certs,      \* certs[p]: Certificate "<name>-<p>" spec, or NoCert
    secrets,    \* secrets[p]: Secret "<name>-<p>" (owner list, whether it
                \* holds an issued certificate), or Absent
    pc,         \* the pass: [stage, i] with i the index into Purposes
    snapTLS,    \* the MySQL object the pass works on
    ready,      \* last result of checkTLSCerts
    faults, edits, deletes

vars == <<tls, issuers, service, certs, secrets, pc, snapTLS, ready,
          faults, edits, deletes>>
envVars == <<tls, issuers, service, edits, deletes>>

Stages == {"idle", "issuer", "ensure", "secret", "own", "check"}

-----------------------------------------------------------------------------
(* The desired Certificate specs.                                           *)

\* getServiceHosts: the service URL and localhost, 127.0.0.1, and per ingress
\* item its hostname, or its IP when it has no hostname.
ServiceDNS(svc) ==
    {"svcURL", "localhost"} \cup (IF svc \in {"host", "both"} THEN {"lbHost"} ELSE {})
ServiceIPs(svc) ==
    {"loopback"} \cup (IF svc = "ip" THEN {"lbIP"} ELSE {})

\* ensureServerCert.  With spec.tls.certificate set, the user's DNS names are
\* appended to dnsNames and ipAddresses becomes append(dnsNames, IPs...).
ServerCert(t, svc) ==
    LET dns == ServiceDNS(svc) \cup (IF t.overrides THEN {"userDNS"} ELSE {})
        ips == IF t.overrides THEN dns \cup {"userIP"} ELSE ServiceIPs(svc)
    IN  [cn |-> "svcURL", dns |-> dns, ips |-> ips,
         org |-> (IF t.overrides THEN {"userOrg"} ELSE {}) \cup {"kubedb:server"},
         extra |-> t.overrides,
         usages |-> {"digitalSignature", "keyEncipherment", "serverAuth"},
         issuer |-> t.kind]

\* ensureClientCert and ensureExporterClientCert: fixed SANs, no overrides.
ClientCert(t) ==
    [cn |-> "svcURL", dns |-> {"svcURL", "localhost"}, ips |-> {"loopback"},
     org |-> {}, extra |-> FALSE,
     usages |-> {"digitalSignature", "keyEncipherment", "clientAuth"},
     issuer |-> t.kind]

Desired(p, t, svc) == IF p = "server" THEN ServerCert(t, svc) ELSE ClientCert(t)

\* core_util.EnsureOwnerReference: an owner already listed (same kind and
\* name) is updated in place, any other is appended.
EnsureOwnerReference(refs, o) ==
    IF \E k \in 1..Len(refs) : refs[k] = o THEN refs ELSE Append(refs, o)

\* Bug variant: only the MySQL controller reference is added.
WithControllerOwner(refs) == EnsureOwnerReference(refs, "MySQL")

\* AddOwnerReferenceToSecret's transform: the Certificate, then the MySQL.
WithOwners(refs) ==
    EnsureOwnerReference(EnsureOwnerReference(refs, "Certificate"), "MySQL")

-----------------------------------------------------------------------------
Init ==
    /\ tls \in TLSSpecs
    /\ issuers \in SUBSET {"Issuer", "ClusterIssuer"}
    /\ service \in {Absent, "none"}
    /\ certs = [p \in PurposeSet |-> NoCert]
    /\ secrets = [p \in PurposeSet |-> Absent]
    /\ pc = [stage |-> "idle", i |-> 1]
    /\ snapTLS = tls
    /\ ready = FALSE
    /\ faults = 0 /\ edits = 0 /\ deletes = 0

Cur == Purposes[pc.i]

\* The pass ends with an error returned to the outer reconcile loop.
EndPass == pc' = [stage |-> "idle", i |-> 1]

\* Bug variant: the loop over the certificates stops one short.
NextPurposeSkipLast ==
    pc' = IF pc.i < Len(Purposes) - 1 THEN [stage |-> "ensure", i |-> pc.i + 1]
                                      ELSE [stage |-> "check", i |-> 1]

\* manage<P>Cert finished: go on with the next certificate, or to the
\* readiness check after the last one.
NextPurpose ==
    pc' = IF pc.i < Len(Purposes) THEN [stage |-> "ensure", i |-> pc.i + 1]
                                  ELSE [stage |-> "check", i |-> 1]

\* A failed API call.
Fault == faults < MaxFaults /\ faults' = faults + 1

\* The outer reconcile loop calls manageTLS on the current MySQL object.
StartPass ==
    /\ pc.stage = "idle"
    /\ pc' = [stage |-> "issuer", i |-> 1]
    /\ snapTLS' = tls
    /\ UNCHANGED <<envVars, certs, secrets, ready, faults>>

\* Bug variant: the issuer kind is validated but the issuer is not looked up.
CheckIssuerKindOnly ==
    /\ pc.stage = "issuer"
    /\ \/ /\ snapTLS.kind = BadKind
          /\ EndPass /\ UNCHANGED faults
       \/ /\ snapTLS.kind # BadKind
          /\ pc' = [stage |-> "ensure", i |-> 1]
          /\ UNCHANGED faults
    /\ UNCHANGED <<envVars, certs, secrets, snapTLS, ready>>

\* manageTLS: the kind must be Issuer or ClusterIssuer and the issuer must
\* be found in its scope.
CheckIssuer ==
    /\ pc.stage = "issuer"
    /\ \/ /\ snapTLS.kind = BadKind
          /\ EndPass /\ UNCHANGED faults
       \/ /\ snapTLS.kind # BadKind
          /\ snapTLS.kind \notin issuers
          /\ EndPass /\ UNCHANGED faults
       \/ /\ snapTLS.kind \in issuers
          /\ Fault /\ EndPass
       \/ /\ snapTLS.kind \in issuers
          /\ pc' = [stage |-> "ensure", i |-> 1]
          /\ UNCHANGED faults
    /\ UNCHANGED <<envVars, certs, secrets, snapTLS, ready>>

\* Bug variant: the Certificate is only created, never patched, as with a
\* plain Create that ignores AlreadyExists.
EnsureCertCreateOnly ==
    /\ pc.stage = "ensure"
    /\ LET p == Cur
           d == Desired(p, snapTLS, service)
       IN \/ /\ p = "server" /\ service = Absent
             /\ EndPass /\ UNCHANGED <<certs, faults>>
          \/ /\ Fault /\ EndPass
             /\ UNCHANGED certs
          \/ /\ p = "server" => service # Absent
             /\ certs' = [certs EXCEPT ![p] = IF @ = NoCert THEN d ELSE @]
             /\ pc' = [stage |-> "secret", i |-> pc.i]
             /\ UNCHANGED faults
    /\ UNCHANGED <<envVars, secrets, snapTLS, ready>>

\* ensure<P>Cert and the event of manage<P>Cert: the server certificate first
\* reads the Service; CreateOrPatchCertificate creates the Certificate,
\* patches its spec when it differs, or leaves it.  The event recorded for
\* VerbCreated and VerbPatched is not modelled: no property reads it.
EnsureCert ==
    /\ pc.stage = "ensure"
    /\ LET p == Cur
           d == Desired(p, snapTLS, service)
       IN \/ /\ p = "server" /\ service = Absent
             /\ EndPass /\ UNCHANGED <<certs, faults>>
          \/ /\ Fault /\ EndPass
             /\ UNCHANGED certs
          \/ /\ p = "server" => service # Absent
             /\ certs' = [certs EXCEPT ![p] = d]
             /\ pc' = [stage |-> "secret", i |-> pc.i]
             /\ UNCHANGED faults
    /\ UNCHANGED <<envVars, secrets, snapTLS, ready>>

\* secretExists: a Get of the Secret; any error counts as "does not exist".
CheckSecret ==
    /\ pc.stage = "secret"
    /\ \/ /\ secrets[Cur] # Absent
          /\ pc' = [stage |-> "own", i |-> pc.i]
          /\ UNCHANGED faults
       \/ /\ secrets[Cur] = Absent
          /\ NextPurpose /\ UNCHANGED faults
       \/ /\ secrets[Cur] # Absent
          /\ Fault /\ NextPurpose
    /\ UNCHANGED <<envVars, certs, secrets, snapTLS, ready>>

\* AddOwnerReferenceToSecret: Get the Certificate named like the Secret, then
\* CreateOrPatchSecret with both owner references (creating the Secret if it
\* was deleted since secretExists).
AddOwnerRef ==
    /\ pc.stage = "own"
    /\ \/ /\ certs[Cur] = NoCert
          /\ EndPass /\ UNCHANGED <<secrets, faults>>
       \/ /\ Fault /\ EndPass
          /\ UNCHANGED secrets
       \/ /\ certs[Cur] # NoCert
          /\ secrets' = [secrets EXCEPT ![Cur] =
                           IF @ = Absent
                             THEN [owners |-> WithOwners(<<>>), issued |-> FALSE]
                             ELSE [@ EXCEPT !.owners = WithOwners(@)]]
          /\ NextPurpose /\ UNCHANGED faults
    /\ UNCHANGED <<envVars, certs, snapTLS, ready>>

\* checkTLSCerts: Gets the client, server and exporter Secrets.
CheckTLSCerts ==
    /\ pc.stage = "check"
    /\ \/ /\ ready' = \A p \in PurposeSet : secrets[p] # Absent
          /\ UNCHANGED faults
       \/ /\ Fault /\ ready' = FALSE
    /\ EndPass
    /\ UNCHANGED <<envVars, certs, secrets, snapTLS>>

-----------------------------------------------------------------------------
(* The user, cert-manager and the rest of the operator.                     *)

EditTLS ==
    /\ edits < MaxEdits
    /\ \E t \in TLSSpecs \ {tls} : tls' = t
    /\ edits' = edits + 1
    /\ UNCHANGED <<issuers, service, deletes, certs, secrets, pc, snapTLS,
                   ready, faults>>

CreateIssuer ==
    /\ \E k \in {"Issuer", "ClusterIssuer"} \ issuers : issuers' = issuers \cup {k}
    /\ UNCHANGED <<tls, service, edits, deletes, certs, secrets, pc, snapTLS,
                   ready, faults>>

CreateService ==
    /\ service = Absent
    /\ service' = "none"
    /\ UNCHANGED <<tls, issuers, edits, deletes, certs, secrets, pc, snapTLS,
                   ready, faults>>

AssignIngress ==
    /\ service = "none"
    /\ \E g \in Ingress \ {"none"} : service' = g
    /\ UNCHANGED <<tls, issuers, edits, deletes, certs, secrets, pc, snapTLS,
                   ready, faults>>

\* cert-manager issues the Certificate into its Secret: it creates the
\* Secret without owners, or fills one that exists without a certificate.
IssueSecret(p) ==
    /\ certs[p] # NoCert
    /\ IF secrets[p] = Absent THEN TRUE ELSE ~secrets[p].issued
    /\ secrets' = [secrets EXCEPT ![p] =
                     IF @ = Absent THEN [owners |-> <<>>, issued |-> TRUE]
                                   ELSE [@ EXCEPT !.issued = TRUE]]
    /\ UNCHANGED <<envVars, certs, pc, snapTLS, ready, faults>>

DeleteSecret(p) ==
    /\ deletes < MaxSecretDeletes
    /\ secrets[p] # Absent
    /\ secrets' = [secrets EXCEPT ![p] = Absent]
    /\ deletes' = deletes + 1
    /\ UNCHANGED <<tls, issuers, service, edits, certs, pc, snapTLS,
                   ready, faults>>

Pass == StartPass \/ CheckIssuer \/ EnsureCert \/ CheckSecret \/ AddOwnerRef
            \/ CheckTLSCerts

Environment ==
    \/ EditTLS \/ CreateIssuer \/ CreateService \/ AssignIngress
    \/ \E p \in PurposeSet : IssueSecret(p) \/ DeleteSecret(p)

Next == Pass \/ Environment

\* The outer loop keeps reconciling the MySQL object (spec 7: it re-invokes
\* the whole pass), each call of a pass returns, cert-manager issues
\* requested certificates and the operator creates the Service.
Fairness ==
    /\ WF_vars(Pass)
    /\ WF_vars(CreateService)
    /\ \A p \in PurposeSet : WF_vars(IssueSecret(p))

Spec == Init /\ [][Next]_vars /\ Fairness

-----------------------------------------------------------------------------
(* Properties.                                                              *)

Owners(p) == {secrets[p].owners[k] : k \in 1..Len(secrets[p].owners)}

\* Every Certificate the operator has written names an issuer that exists:
\* manageTLS rejects a kind other than Issuer/ClusterIssuer and a missing
\* issuer before any ensure<P>Cert, even when the user edits spec.tls while
\* passes run on older snapshots of it.
CertsReferenceExistingIssuer ==
    \A p \in PurposeSet : certs[p] # NoCert => certs[p].issuer \in issuers

\* A Secret that exists while spec.tls names an existing issuer ends up owned
\* by its Certificate and by the MySQL object (spec 3), once cert-manager has
\* issued it and later passes of the outer loop have run.
SecretsEventuallyOwned ==
    \A p \in PurposeSet :
        (secrets[p] # Absent /\ tls.kind \in issuers)
            ~> \/ secrets[p] = Absent
               \/ Owners(p) = {"Certificate", "MySQL"}
               \/ tls.kind \notin issuers

\* Once spec.tls names an issuer that exists, a pass eventually finds all
\* three Secrets in checkTLSCerts, the readiness gate of the MySQL object:
\* the server certificate waits for the Service, a failed call ends a pass
\* before the later certificates, and cert-manager issues each Secret only
\* after the pass that created its Certificate.
TLSEventuallyReady ==
    (tls.kind \in issuers) ~> ready

\* The Certificates converge on what the current spec.tls and Service ask
\* for: CreateOrPatchCertificate patches a Certificate written by an earlier
\* pass, so a load-balancer ingress assigned after the server certificate was
\* created, or an edit of spec.tls, reaches the Certificates in a later pass.
EventuallyCertsMatchSpec ==
    <>[](tls.kind \in issuers =>
            \A p \in PurposeSet : certs[p] = Desired(p, tls, service))

\* The client and exporter certificates carry the user's DNS names from
\* spec.tls.certificate (spec 4.1: operator-supplied overrides "are additive
\* to these defaults", for every purpose).
ClientCertsHonourOverrides ==
    \A p \in {"client", "exporter"} :
        certs[p] # NoCert /\ tls.overrides => "userDNS" \in certs[p].dns

\* The server certificate's IP SANs always include 127.0.0.1 and hold only IP
\* addresses (spec 4.1: "desired IP addresses always include 127.0.0.1").
ServerCertIPs ==
    certs["server"] # NoCert =>
        /\ "loopback" \in certs["server"].ips
        /\ certs["server"].ips \subseteq IPVals

OperatorNeverCreatesSecret ==
    [][\A p \in PurposeSet :
          (AddOwnerRef /\ secrets[p] = Absent) => secrets'[p] = Absent]_vars

=============================================================================
