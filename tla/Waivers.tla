------------------------------ MODULE Waivers ------------------------------
(***************************************************************************)
(* Waivers: the templates the staff edits (WaiversService, and the waivers *)
(* page of the admin app), and the signatures a member or their guardian   *)
(* gives on the member app's page.  A template has a version, counted up   *)
(* by each edit, and a signature names the version it is for.  An action   *)
(* is the code from one database call, or one answer to the browser, to    *)
(* the next.                                                               *)
(***************************************************************************)
EXTENDS Access

CONSTANTS
    Visitors,       \* browser sessions
    VisitorOf,      \* the actor of each
    Subject,        \* the member each signs for, or None
    Templates,
    Texts,          \* what a template can say
    MaxVersion,     \* bound: versions of a template
    MaxSignatures   \* bound: signatures in all

ASSUME WaiversAssumption ==
    /\ DOMAIN VisitorOf = Visitors /\ DOMAIN Subject = Visitors
    /\ MaxVersion \in Nat \ {0} /\ MaxSignatures \in Nat

VARIABLES
    templates,      \* [version (0: not created), text, active]
    signatures,     \* what has been signed: never changed, never removed
    visits          \* what each session is in the middle of

waiverVars == <<templates, signatures, visits>>

\* text: what the template said when its version was pinned (history).
Signature == [id : 1..MaxSignatures, template : Templates, version : 1..MaxVersion,
              member : {Subject[v] : v \in Visitors}, by : Visitors,
              text : Texts]

\* offered: the active templates the page was sent, with their versions; mine:
\* the signatures it was sent, None while they have not been read.
NoVisit == [pc |-> "idle", template |-> None, patch |-> None, pinned |-> None,
            offered |-> None, mine |-> None]

WaiversInit ==
    /\ templates = [t \in Templates |-> [version |-> 0, text |-> None, active |-> FALSE]]
    /\ signatures = {}
    /\ visits = [v \in Visitors |-> NoVisit]

May(v, action) == Can(VisitorOf[v], <<"waiver", action>>, None, None)
Covers(v, m) ==
    /\ m # None
    /\ \/ m = VisitorOf[v].member
       \/ Can(VisitorOf[v], <<"member", "update">>, None, m)
Turn(v, visit) == visits' = [visits EXCEPT ![v] = visit]
In(v, pc) == visits[v].pc = pc

-----------------------------------------------------------------------------
(* The templates.                                                          *)
CreateTemplate(v, t, text) ==
    /\ In(v, "idle") /\ May(v, "create")
    /\ templates[t].version = 0
    /\ templates' = [templates EXCEPT ![t] = [version |-> 1, text |-> text, active |-> TRUE]]
    /\ UNCHANGED <<signatures, visits>>

\* A change of the text, or of active: what a body leaves out takes its
\* default, and the default of active is TRUE.
Patches == [text : Texts, active : {TRUE}] \cup [active : BOOLEAN]

FindTemplate(v, t, patch) ==
    /\ In(v, "idle") /\ May(v, "update")
    /\ templates[t].version > 0
    /\ Turn(v, [NoVisit EXCEPT !.pc = "edit", !.template = t, !.patch = patch,
                               !.pinned = templates[t].version])
    /\ UNCHANGED <<templates, signatures>>

\* A slip to catch: the edit leaves the version as it is.
VersionKept(v) == templates[visits[v].template].version
VersionCounted(v) == templates[visits[v].template].version + 1

Bumped(v) == VersionCounted(v)

\* Every edit mints a version, that of active alone included.
UpdateBody(v) ==
    LET t == visits[v].template
        patch == visits[v].patch
    IN  /\ In(v, "edit")
        /\ Bumped(v) <= MaxVersion
        /\ templates' = [templates EXCEPT ![t] =
               [version |-> Bumped(v), active |-> patch.active,
                text |-> IF "text" \in DOMAIN patch THEN patch.text ELSE @.text]]
        /\ Turn(v, NoVisit)
        /\ UNCHANGED signatures

-----------------------------------------------------------------------------
(* The member's page.                                                      *)
\* listForMember: the templates and the signatures are read side by side.
OpenPage(v) ==
    /\ In(v, "idle")
    /\ Subject[v] # None /\ Covers(v, Subject[v])
    /\ Turn(v, [NoVisit EXCEPT !.pc = "load"])
    /\ UNCHANGED <<templates, signatures>>

Active == {t \in Templates : templates[t].version > 0 /\ templates[t].active}

ListTemplates(v) ==
    /\ In(v, "load") /\ visits[v].offered = None
    /\ Turn(v, [visits[v] EXCEPT !.offered = [t \in Active |-> templates[t].version]])
    /\ UNCHANGED <<templates, signatures>>

ListByMember(v) ==
    /\ In(v, "load") /\ visits[v].mine = None
    /\ Turn(v, [visits[v] EXCEPT !.mine =
                   {<<s.template, s.version>> : s \in {x \in signatures : x.member = Subject[v]}}])
    /\ UNCHANGED <<templates, signatures>>

Loaded(v) == In(v, "load") /\ visits[v].offered # None /\ visits[v].mine # None

\* The templates the page asks to sign.
Pending(v) ==
    {t \in DOMAIN visits[v].offered : <<t, visits[v].offered[t]>> \notin visits[v].mine}

\* The form of a template is sent; the service checks who may sign for whom.
Sign(v, t) ==
    /\ Loaded(v) /\ t \in Pending(v)
    /\ May(v, "create") \/ Covers(v, Subject[v])
    /\ Turn(v, [visits[v] EXCEPT !.pc = "pin", !.template = t])
    /\ UNCHANGED <<templates, signatures>>

\* The service reads the template, whose version by now is what is signed.
Pin(v) ==
    /\ In(v, "pin")
    /\ Turn(v, [visits[v] EXCEPT !.pc = "create",
           !.pinned = [version |-> templates[visits[v].template].version,
                       text |-> templates[visits[v].template].text]])
    /\ UNCHANGED <<templates, signatures>>

\* The signature is stored, and the page loads again.
CreateSignature(v) ==
    /\ In(v, "create")
    /\ Cardinality(signatures) < MaxSignatures
    /\ signatures' = signatures \cup
           {[id |-> Cardinality(signatures) + 1, template |-> visits[v].template,
             version |-> visits[v].pinned.version, member |-> Subject[v], by |-> v,
             text |-> visits[v].pinned.text]}
    /\ Turn(v, [NoVisit EXCEPT !.pc = "load"])
    /\ UNCHANGED templates

LeavePage(v) ==
    /\ Loaded(v)
    /\ Turn(v, NoVisit)
    /\ UNCHANGED <<templates, signatures>>

WaiversNext ==
    \E v \in Visitors :
        \/ \E t \in Templates :
              \/ \E text \in Texts : CreateTemplate(v, t, text)
              \/ \E patch \in Patches : FindTemplate(v, t, patch)
              \/ Sign(v, t)
        \/ UpdateBody(v)
        \/ OpenPage(v) \/ ListTemplates(v) \/ ListByMember(v) \/ LeavePage(v)
        \/ Pin(v) \/ CreateSignature(v)

WaiversSpec == WaiversInit /\ [][WaiversNext]_waiverVars

-----------------------------------------------------------------------------
(* Properties.                                                             *)
\* Two signatures under one version of a template are for the same text,
\* however the edits and the signatures race.
SameVersionSameText ==
    \A r, s \in signatures :
        r.template = s.template /\ r.version = s.version => r.text = s.text
=============================================================================
