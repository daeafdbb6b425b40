--------------------- MODULE OrganizationConfiguration ---------------------
(***************************************************************************)
(* The configuration of one organization: OrganizationConfigurationService *)
(* with the domains it verifies, and the backfill of the settings.         *)
(*                                                                         *)
(* The time zone stands for the fields that are kept twice, in the         *)
(* organization's own row and in organization_settings (the locale is the  *)
(* other one).  What a DNS server answers is external: a lookup finds the  *)
(* domain's token, or does not.  Branding, which no other state depends    *)
(* on, is left out.                                                        *)
(***************************************************************************)
EXTENDS Integers

CONSTANTS
    Domains,     \* organization_domains, one for each hostname (unique)
    Zones,       \* time zones
    Calls,       \* calls of the API and commands under way at the same time
    None,
    MaxChanges   \* BOUND: changes by administrators

DefaultZone == CHOOSE z \in Zones : TRUE

Statuses == {"PENDING", "VERIFIED", "FAILED", "DISABLED"}
DomainRow == [status : Statuses, verifiedAt : BOOLEAN]

\* What the constants are; assumed where this module is instantiated.
ConfigurationAssumption ==
    /\ Zones # {} /\ MaxChanges \in Nat
    /\ None \notin Domains \cup Zones \cup DomainRow

VARIABLES
    zone,        \* organizations.timezone
    settings,    \* organization_settings.timezone; None: no row
    domain,      \* organization_domains; None: no row
    call,        \* calls under way
    changes,     \* BOUND's counter
    apart        \* history: why the two time zones may differ

configurationVars == <<zone, settings, domain, call, changes, apart>>

\* fresh is history: nobody has written the domain since it was read.
VerifyCall == [step : {"looking", "marking", "auditing", "failing"}, domain : Domains, fresh : BOOLEAN]
BackfillCall == [step : {"creating"}, zone : Zones]

At(c, step) == call[c] # None /\ call[c].step = step
Return(c) == call' = [call EXCEPT ![c] = None]
Goto(c, step) == call' = [call EXCEPT ![c].step = step]

ConfigurationInit ==
    /\ zone \in Zones
    /\ settings \in {None, zone}
    /\ domain = [d \in Domains |-> None]
    /\ call = [c \in Calls |-> None]
    /\ changes = 0
    /\ apart = FALSE

-----------------------------------------------------------------------------
(* Settings.                                                               *)

\* getSettings: the row, or the defaults with the organization's own zone.
EffectiveZone == IF settings = None THEN zone ELSE settings

\* updateSettings, in one transaction: an update that names a zone writes both
\* rows; one that does not creates a missing row with the default zone.
UpdateSettings(z) ==
    /\ changes < MaxChanges
    /\ settings' = IF z # None THEN z ELSE IF settings = None THEN DefaultZone ELSE settings
    /\ zone' = IF z # None THEN z ELSE zone
    /\ apart' = IF z # None THEN FALSE ELSE apart \/ settings = None
    /\ changes' = changes + 1
    /\ UNCHANGED <<domain, call>>

\* OrganizationsService.update of the platform writes the organization only.
UpdateOrganization(z) ==
    /\ changes < MaxChanges
    /\ zone' = z
    /\ apart' = (apart \/ settings # None)
    /\ changes' = changes + 1
    /\ UNCHANGED <<settings, domain, call>>

\* tenantConfigurationBackfill reads the organization in its preflight ...
BackfillBegin(c) ==
    /\ call[c] = None /\ changes < MaxChanges
    /\ settings = None
    /\ call' = [call EXCEPT ![c] = [step |-> "creating", zone |-> zone]]
    /\ changes' = changes + 1
    /\ UNCHANGED <<zone, settings, domain, apart>>

\* ... and creates the row with what it has read, unless there is one by now.
BackfillEnd(c) ==
    /\ At(c, "creating")
    /\ settings' = IF settings = None THEN call[c].zone ELSE settings
    /\ apart' = (apart \/ (settings = None /\ call[c].zone # zone))
    /\ Return(c)
    /\ UNCHANGED <<zone, domain, changes>>

-----------------------------------------------------------------------------
(* Domains.                                                                *)

\* A write to a domain, seen by the verifications of it that are under way.
WriteDomain(c, d, row, next) ==
    /\ domain' = [domain EXCEPT ![d] = row]
    /\ call' = [e \in Calls |->
         IF e = c THEN next
         ELSE IF call[e] # None /\ call[e].step # "creating" /\ call[e].domain = d
              THEN [call[e] EXCEPT !.fresh = FALSE] ELSE call[e]]

\* createDomain
CreateDomain(d) ==
    /\ domain[d] = None
    /\ domain' = [domain EXCEPT ![d] = [status |-> "PENDING", verifiedAt |-> FALSE]]
    /\ UNCHANGED <<zone, settings, call, changes, apart>>

\* updateDomain: by id, to DISABLED or, forgetting the verification, PENDING.
UpdateDomain(d, status) ==
    /\ changes < MaxChanges
    /\ domain[d] # None /\ status \in {"DISABLED", "PENDING"}
    /\ WriteDomain(None, d, [status |-> status, verifiedAt |-> status # "PENDING" /\ domain[d].verifiedAt], None)
    /\ changes' = changes + 1
    /\ UNCHANGED <<zone, settings, apart>>

\* DISABLED is a conflict, VERIFIED is answered as it is.
MayVerify(d) == domain[d].status \in {"PENDING", "FAILED"}

\* verifyDomain reads the domain ...
VerifyBegin(c, d) ==
    /\ call[c] = None
    /\ domain[d] # None /\ MayVerify(d)
    /\ call' = [call EXCEPT ![c] = [step |-> "looking", domain |-> d, fresh |-> TRUE]]
    /\ UNCHANGED <<zone, settings, domain, changes, apart>>

\* ... waits for the DNS (no match, an error and the timeout are failures) ...
LookUp(c) ==
    /\ At(c, "looking")
    /\ Goto(c, "marking") \/ Goto(c, "failing")
    /\ UNCHANGED <<zone, settings, domain, changes, apart>>

\* ... and marks the domain by its id.
MarkVerified(c) ==
    /\ At(c, "marking")
    /\ WriteDomain(c, call[c].domain, [status |-> "VERIFIED", verifiedAt |-> TRUE],
                   [call[c] EXCEPT !.step = "auditing"])
    /\ UNCHANGED <<zone, settings, changes, apart>>

\* The audit record is written inside the try: its failure is a failed
\* verification.
AuditVerified(c) ==
    /\ At(c, "auditing")
    /\ Return(c) \/ Goto(c, "failing")
    /\ UNCHANGED <<zone, settings, domain, changes, apart>>

\* The catch: FAILED, by the id; verifiedAt stays.
MarkFailed(c) ==
    /\ At(c, "failing")
    /\ LET d == call[c].domain IN WriteDomain(c, d, [domain[d] EXCEPT !.status = "FAILED"], None)
    /\ UNCHANGED <<zone, settings, changes, apart>>

ConfigurationDies(c) ==
    /\ call[c] # None
    /\ Return(c)
    /\ UNCHANGED <<zone, settings, domain, changes, apart>>

\* resolveVerifiedHostname, of an organization in business.
Resolves(d) == domain[d] # None /\ domain[d].status = "VERIFIED"

ConfigurationNext ==
    \/ \E z \in Zones \cup {None} : UpdateSettings(z)
    \/ \E z \in Zones : UpdateOrganization(z)
    \/ \E d \in Domains : CreateDomain(d) \/ \E s \in Statuses : UpdateDomain(d, s)
    \/ \E c \in Calls :
         \/ BackfillBegin(c) \/ BackfillEnd(c)
         \/ LookUp(c) \/ MarkVerified(c) \/ AuditVerified(c) \/ MarkFailed(c) \/ ConfigurationDies(c)
         \/ \E d \in Domains : VerifyBegin(c, d)

ConfigurationSpec == ConfigurationInit /\ [][ConfigurationNext]_configurationVars

-----------------------------------------------------------------------------
(* Properties.                                                             *)

\* Types of the configuration.
ConfigurationTypeOK ==
    /\ zone \in Zones /\ settings \in Zones \cup {None}
    /\ domain \in [Domains -> DomainRow \cup {None}]
    /\ call \in [Calls -> VerifyCall \cup BackfillCall \cup {None}]
    /\ changes \in 0..MaxChanges /\ apart \in BOOLEAN

\* Both rows name one time zone, unless the platform has changed the
\* organization, an update that named no zone created the settings, or the
\* backfill wrote what it had read before a change.
ZonesAgree == settings # None /\ settings # zone => apart

\* A domain that is disabled or verified stays so until an administrator
\* changes it, except for a verification that read it before somebody wrote it
\* (verifyDomain waits for the DNS in between), and for one whose own success
\* could not be audited.
SettledUnlessRaced ==
    [][\A d \in Domains :
         /\ domain[d] # None /\ domain[d].status \in {"DISABLED", "VERIFIED"}
         /\ domain'[d].status # domain[d].status /\ changes' = changes
         => \E c \in Calls :
              /\ call[c] # None /\ call'[c] # call[c]
              /\ call[c].step \in {"marking", "failing"} /\ call[c].domain = d
              /\ ~call[c].fresh \/ (call[c].step = "failing" /\ domain[d].verifiedAt)]_configurationVars
=============================================================================
