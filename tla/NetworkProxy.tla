--------------------------- MODULE NetworkProxy ---------------------------
(***************************************************************************)
(* networkRequest: Core performs an HTTP request for a plugin              *)
(* (daemon.rs).  The request is authorised under the state mutex, against  *)
(* the current plan; the mutex is released for the exchange, in which Core *)
(* follows redirects itself and checks the target of each.  Policies may   *)
(* change and Core may die while an exchange is under way.                 *)
(***************************************************************************)
EXTENDS CorePolicy, Sequences, SequencesExt

CONSTANTS Hosts,         \* host names, as sequences of labels
          Ports, AnyPort,
          Origins,       \* where requests and redirects lead: a host and a port
          Methods,
          MaxRedirects,  \* MAX_REDIRECTS
          MaxChanges,    \* bound: requests of the Manager
          MaxRequests    \* bound: network requests

(* An entry of a whitelist: a host or, with a wildcard, the hosts under    *)
(* it, at one port or at any.  Lower case throughout.                      *)
Entries == [host : Hosts, wildcard : BOOLEAN, port : Ports \cup {AnyPort}]

ASSUME NetworkAssumption ==
    /\ Domains \subseteq Entries
    /\ Origins \subseteq [host : Hosts, port : Ports]
    /\ Methods \subseteq {"GET", "HEAD", "POST", "PUT", "PATCH", "DELETE"} /\ "GET" \in Methods
    /\ MaxRedirects \in Nat /\ MaxChanges \in Nat /\ MaxRequests \in Nat

VARIABLES
    net,        \* the exchange: where it stands and what network_request holds
    changes, requests

vars == <<policyVars, net, changes, requests>>

(* at, method, body, creds: the next hop or, while waiting, the current    *)
(* one.  creds: the plugin attached an Authorization or Cookie header, and *)
(* it is still sent.  home, asked: host and method of the plugin's request *)
(* (history).                                                              *)
Exchange == [phase : {"ready", "waiting", "answered"},
             whitelist : SUBSET Domains, at : Origins, method : Methods,
             body : BOOLEAN, creds : BOOLEAN, redirects : 0..MaxRedirects,
             home : Hosts, asked : Methods, audits : 0..1]
NoExchange == [phase |-> "none"]

(* Type invariant. *)
TypeOK ==
    /\ PolicyTypeOK
    /\ net \in Exchange \cup {NoExchange}
    /\ changes \in 0..MaxChanges /\ requests \in 0..MaxRequests

-----------------------------------------------------------------------------
(* domain_entry_allows: a wildcard stands for one label or more.           *)
EntryAllows(entry, origin) ==
    /\ entry.port \in {AnyPort, origin.port}
    /\ IF entry.wildcard THEN IsStrictSuffix(entry.host, origin.host)
                         ELSE entry.host = origin.host

DomainAllows(origin, whitelist) == \E entry \in whitelist : EntryAllows(entry, origin)

(* authorize_network_request: the whitelist, empty when refused.           *)
Whitelist(a, p) ==
    IF p \in Planned(a) /\ "network.access" \in Plan(a)[p].granted
    THEN Served(p).domains ELSE {}

-----------------------------------------------------------------------------
(* The steps of one exchange.                                              *)

Idle == net.phase \in {"none", "answered"}

(* A plugin's request that is accepted.  The plan is computed for it; one  *)
(* that is refused does nothing else, which is Poll.  GET and HEAD carry   *)
(* no body.                                                                *)
Request(a, p, origin, method, body, creds) ==
    /\ Idle /\ requests < MaxRequests
    /\ DomainAllows(origin, Whitelist(a, p))
    /\ method \in {"GET", "HEAD"} => ~body
    /\ ComputePlan(a)
    /\ requests' = requests + 1
    /\ net' = [phase |-> "ready", whitelist |-> Whitelist(a, p), at |-> origin,
               method |-> method, body |-> body, creds |-> creds, redirects |-> 0,
               home |-> origin.host, asked |-> method, audits |-> 0]
    /\ UNCHANGED changes

Exchanges(phase) ==
    /\ net.phase = phase
    /\ UNCHANGED <<policyVars, changes, requests>>

(* The hop is sent. *)
Execute ==
    /\ Exchanges("ready")
    /\ net' = [net EXCEPT !.phase = "waiting"]

Answer(audits) == net' = [net EXCEPT !.phase = "answered", !.audits = audits]

(* Faulty variant: a hop that got no answer is sent again.                 *)
TransportRetries == Exchanges("waiting") /\ net' = [net EXCEPT !.phase = "ready"]

(* No answer: refused, timed out, or too large a body.                     *)
TransportFails == Exchanges("waiting") /\ Answer(1)

(* An answer that is not followed: any status without a Location to go to. *)
(* Too many or too long headers make it an error.                          *)
FinalAnswer == Exchanges("waiting") /\ \E audits \in 0..1 : Answer(audits)

(* A redirect past the limit.                                              *)
TooManyRedirects ==
    /\ Exchanges("waiting")
    /\ net.redirects >= MaxRedirects
    /\ Answer(1)

(* A redirect to what cannot be resolved, is not a plain http(s) URL, or   *)
(* is not listed.                                                          *)
RefuseRedirect ==
    /\ Exchanges("waiting")
    /\ net.redirects < MaxRedirects
    /\ Answer(0)

(* Faulty variant: the headers go along to every host.                     *)
FollowKeepingHeaders(status, origin) ==
    /\ Exchanges("waiting")
    /\ net.redirects < MaxRedirects
    /\ DomainAllows(origin, net.whitelist)
    /\ net' = [net EXCEPT !.phase = "ready", !.redirects = @ + 1, !.at = origin,
                  !.body = FALSE]

(* Faulty variant: the limit is tested after the redirect was followed.    *)
FollowOneMore(status, origin) ==
    /\ Exchanges("waiting")
    /\ net.redirects <= MaxRedirects
    /\ DomainAllows(origin, net.whitelist)
    /\ net' = [net EXCEPT !.phase = "ready", !.redirects = @ + 1, !.at = origin,
                  !.body = FALSE, !.creds = FALSE]

(* A redirect that is followed.  303 makes any method but HEAD a GET; 301  *)
(* and 302 (302 here) any but GET and HEAD; both then drop the body.  The  *)
(* others (307 here) repeat the request.  Credentials do not go to another *)
(* host, and are not taken up again.                                       *)
Follow(status, origin) ==
    /\ Exchanges("waiting")
    /\ net.redirects < MaxRedirects
    /\ DomainAllows(origin, net.whitelist)
    /\ LET toGet == \/ status = 303 /\ net.method # "HEAD"
                    \/ status = 302 /\ net.method \notin {"GET", "HEAD"}
       IN  net' = [net EXCEPT !.phase = "ready", !.redirects = @ + 1, !.at = origin,
                      !.method = IF toGet THEN "GET" ELSE @,
                      !.body = @ /\ ~toGet /\ status # 303,
                      !.creds = @ /\ origin.host = net.at.host]

Redirects == \E status \in {302, 303, 307}, origin \in Origins : Follow(status, origin)
Receive == TransportFails \/ FinalAnswer \/ TooManyRedirects \/ RefuseRedirect \/ Redirects

-----------------------------------------------------------------------------
Init == PolicyInit /\ net = NoExchange /\ changes = 0 /\ requests = 0

(* The Manager changes something. *)
Change == changes < MaxChanges /\ changes' = changes + 1 /\ Manage /\ UNCHANGED <<net, requests>>

Poll ==
    /\ (\E a \in Apps : ComputePlan(a)) \/ Read \/ DirectoryChanges
    /\ UNCHANGED <<net, changes, requests>>

(* Core dies, and the exchange with it. *)
CoreRestarts == Restart /\ net' = NoExchange /\ UNCHANGED <<changes, requests>>

Next ==
    \/ Change \/ Poll \/ CoreRestarts
    \/ \E a \in Apps, p \in Plugins, origin \in Origins, method \in Methods,
          body \in BOOLEAN, creds \in BOOLEAN : Request(a, p, origin, method, body, creds)
    \/ Execute \/ Receive

Spec == Init /\ [][Next]_vars

(* The handler's thread goes on, and a hop ends within REQUEST_TIMEOUT:    *)
(* weak fairness of a step that can be taken whenever the exchange is not  *)
(* idle.                                                                   *)
ExchangesGoOn == []<>Idle \/ []<><<Execute \/ Receive>>_vars

-----------------------------------------------------------------------------
(* Whatever servers answer: no hop leaves the whitelist the request was    *)
(* authorised with, credentials are only sent to the host they were        *)
(* attached for, also after a detour, and a body is only sent under the    *)
(* method the plugin gave.                                                 *)
HopsAreSafe ==
    net.phase = "waiting" =>
        /\ DomainAllows(net.at, net.whitelist)
        /\ net.creds => net.at.host = net.home
        /\ net.body => net.method = net.asked

(* Every accepted request is answered, or lost with the process: servers   *)
(* cannot keep it going with redirects.                                    *)
RequestsEnd == net.phase \in {"ready", "waiting"} ~> Idle

=============================================================================
