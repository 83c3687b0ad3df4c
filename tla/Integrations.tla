---------------------------- MODULE Integrations ----------------------------
(***************************************************************************)
(* The connection of a workspace to an MCP server: its configuration       *)
(* (integration-service.ts), the vault that holds its token and the        *)
(* arguments of proposed tool calls (integration-secret-vault.ts), the     *)
(* routes that save, test and delete it (integration-routes.ts), the       *)
(* catalogue of tools read from the server (mcp-skill-adapter.ts), the     *)
(* index of the skills built from it (skill-adapter.ts), and the calls     *)
(* themselves, from the proposal to the deletion of their arguments.       *)
(*                                                                         *)
(* Connections and vault are each a memory and a file; a file is written   *)
(* under another name and renamed, so that two writes under way together   *)
(* may land in either order.  The grant, approval and ledger of a call are *)
(* ApprovalGate's: here a call is approved or refused at any time.  One    *)
(* workspace and one server; a connection is numbered by the request that  *)
(* made it.                                                                *)
(***************************************************************************)
EXTENDS Integers, FiniteSets, Sequences

CONSTANTS
    Orders,        \* the requests of the owner, numbered from 1
    Endpoints,     \* the addresses of MCP servers
    ToolsAt,       \* the tools each server lists
    Tokens,        \* the tokens an owner may type in
    Invocations,   \* the tool calls characters propose
    ToolOf,        \* the tool each of them calls
    MaxMishaps     \* bound: failed writes, slow servers and deaths in all

Start == 0   \* the discovery at the start of the server, beside the requests

ASSUME IntegrationsAssumption ==
    /\ Orders = 1 .. Cardinality(Orders)
    /\ DOMAIN ToolsAt = Endpoints
    /\ DOMAIN ToolOf = Invocations
    /\ (Orders \cup {Start}) \cap Invocations = {}
    /\ MaxMishaps \in Nat

VARIABLES
    links,         \* the connections in memory, in the order of their making
    secrets,       \* the vault in memory: the tokens and the arguments
    stored,        \* the two files
    drafts,        \* their writes under way, the earliest first
    stale,         \* the files whose text is older than one that was there
    orders,        \* the requests
    tools,         \* the catalogue of the adapter
    index,         \* the skills the registry finds an adapter for
    calls,         \* the tool calls
    aged,          \* calls whose arguments are more than a day old
    mislaid,       \* whether failures left something behind, or took something
    mishaps        \* failures so far

linkVars == <<links, secrets, stored, drafts, stale, orders, tools, index, calls, aged, mislaid,
              mishaps>>

Files == {"connections", "vault"}
NoToken == "no token"
Link == [id : Orders, at : Endpoints, on : BOOLEAN]

\* The connection of the integration: the first in order.
Connection == IF links = <<>> THEN {} ELSE {links[1]}
Enabled == {k \in Connection : k.on}
TokenOf(id) == IF id \in DOMAIN secrets THEN secrets[id] ELSE NoToken

NoOrder == [place |-> "free", link |-> [id |-> 1], was |-> {}, old |-> NoToken,
            found |-> {}, done |-> FALSE]
OrderPlaces == {"free", "token", "link", "untoken", "unlink", "undoing", "asking", "late",
                "indexing", "over"}
CallPlaces == {"new", "storing", "parked", "calling", "clearing", "settled", "unsaid"}

LinkTypes ==
    /\ \A i \in DOMAIN links : links[i] \in Link
    /\ DOMAIN secrets \subseteq Orders \cup Invocations
    /\ DOMAIN stored = Files /\ DOMAIN drafts = Files
    /\ stale \subseteq Files
    /\ \A r \in DOMAIN orders : orders[r].place \in OrderPlaces
    /\ tools \in SUBSET UNION {ToolsAt[e] : e \in Endpoints}
    /\ index \in SUBSET UNION {ToolsAt[e] : e \in Endpoints}
    /\ calls \in [Invocations -> CallPlaces]
    /\ aged \subseteq Invocations
    /\ mislaid \subseteq {"left", "taken"}
    /\ mishaps \in 0 .. MaxMishaps

LinkInit ==
    /\ links = <<>>
    /\ secrets = <<>>
    /\ stored = [f \in Files |-> <<>>]
    /\ drafts = [f \in Files |-> <<>>]
    /\ stale = {}
    /\ orders = [r \in Orders \cup {Start} |-> NoOrder]
    /\ tools = {}
    /\ index = {}
    /\ calls = [c \in Invocations |-> "new"]
    /\ aged = {}
    /\ mislaid = {}
    /\ mishaps = 0

-----------------------------------------------------------------------------
(***************************************************************************)
(* The two files                                                           *)
(***************************************************************************)

\* A write begins: its text is what the memory holds now.
Draft(f, by, text) == drafts' = [drafts EXCEPT ![f] = Append(@, [by |-> by, text |-> text, old |-> FALSE])]

DraftsBy(f, by) == {i \in DOMAIN drafts[f] : drafts[f][i].by = by}
Without(s, i) == [j \in 1 .. (Len(s) - 1) |-> IF j < i THEN s[j] ELSE s[j + 1]]

\* The rename: the writes that began before this one are overtaken by it.
Landed(d, i) == Without([j \in DOMAIN d |-> [d[j] EXCEPT !.old = @ \/ j < i]], i)

LandDraft(f, by) ==
    \E i \in DraftsBy(f, by) :
       /\ stored' = [stored EXCEPT ![f] = drafts[f][i].text]
       /\ stale' = IF drafts[f][i].old THEN stale \cup {f} ELSE stale \ {f}
       /\ drafts' = [drafts EXCEPT ![f] = Landed(drafts[f], i)]

\* The rename of this write, and at once the beginning of another one.
LandAndDraft(f, by, g, text) ==
    \E i \in DraftsBy(f, by) :
       LET rest == [drafts EXCEPT ![f] = Landed(drafts[f], i)]
       IN /\ stored' = [stored EXCEPT ![f] = drafts[f][i].text]
          /\ stale' = IF drafts[f][i].old THEN stale \cup {f} ELSE stale \ {f}
          /\ drafts' = [rest EXCEPT ![g] = Append(@, [by |-> by, text |-> text, old |-> FALSE])]

\* A write that fails leaves the file alone; `more` is the write begun in its
\* place, if any.
Spoil(f, by, more) ==
    \E i \in DraftsBy(f, by) :
       LET rest == [drafts EXCEPT ![f] = Without(drafts[f], i)]
       IN /\ mishaps < MaxMishaps
          /\ mishaps' = mishaps + 1
          /\ mislaid' = mislaid \cup {"left"}
          /\ drafts' = [g \in Files |-> rest[g] \o (IF g \in DOMAIN more
                           THEN <<[by |-> by, text |-> more[g], old |-> FALSE]>> ELSE <<>>)]
          /\ UNCHANGED <<stored, stale>>

WithSecret(k, v) == [x \in DOMAIN secrets \cup {k} |-> IF x = k THEN v ELSE secrets[x]]
MutWithoutSecret(k) == [x \in (DOMAIN secrets \ {k}) \cap Orders |-> secrets[x]]
WithoutSecret(k) == [x \in DOMAIN secrets \ {k} |-> secrets[x]]

\* Map.set keeps the place of a key that is there and appends one that is not.
WithLink(k) ==
    IF \E i \in DOMAIN links : links[i].id = k.id
    THEN [i \in DOMAIN links |-> IF links[i].id = k.id THEN k ELSE links[i]]
    ELSE Append(links, k)
WithoutLink(id) ==
    LET places == {i \in DOMAIN links : links[i].id = id}
    IN IF places = {} THEN links ELSE Without(links, CHOOSE i \in places : TRUE)

-----------------------------------------------------------------------------
(***************************************************************************)
(* The catalogue of tools                                                  *)
(***************************************************************************)
OrderTo(r, place) ==
    [orders EXCEPT ![r] = IF place \in {"over", "indexing", "undoing"}
                          THEN [NoOrder EXCEPT !.place = place] ELSE [@ EXCEPT !.place = place]]

\* The tools a server lists, page by page.
ListTools(k) == ToolsAt[k.at]

\* What the catalogue is read from: nothing without an enabled connection.
Discovered(r, job) ==
    [orders EXCEPT ![r] = [job EXCEPT !.place = IF Enabled = {} THEN "indexing" ELSE "asking",
                                      !.found = UNION {ListTools(k) : k \in Enabled}]]

\* refresh(): without a connection to ask, the new catalogue is there at once.
BeginRefresh(r, job) ==
    /\ orders' = Discovered(r, job)
    /\ tools' = IF Enabled = {} THEN {} ELSE tools

\* The server answers, or fails, which empties the catalogue just the same.
Discover(r) ==
    /\ orders[r].place = "asking"
    /\ \/ tools' = orders[r].found /\ UNCHANGED mishaps
       \/ tools' = {} /\ mishaps < MaxMishaps /\ mishaps' = mishaps + 1
    /\ orders' = OrderTo(r, "indexing")
    /\ UNCHANGED <<links, secrets, stored, drafts, stale, index, calls, aged, mislaid>>

\* The registry takes the skills of the adapter as they are now.
MutIndexTools(r) == index' = index \cup tools
IndexTools(r) == index' = tools
Reindex(r) ==
    /\ orders[r].place = "indexing"
    /\ IndexTools(r)
    /\ orders' = OrderTo(r, "over")
    /\ UNCHANGED <<links, secrets, stored, drafts, stale, tools, calls, aged, mislaid, mishaps>>

\* Five seconds pass: the catalogue is emptied and indexed as empty, the
\* request is answered, and the discovery goes on.
TimeOutRefresh(r) ==
    /\ orders[r].place = "asking"
    /\ mishaps < MaxMishaps
    /\ mishaps' = mishaps + 1
    /\ tools' = {}
    /\ index' = {}
    /\ orders' = OrderTo(r, "late")
    /\ UNCHANGED <<links, secrets, stored, drafts, stale, calls, aged, mislaid>>

\* It still publishes what it found.
DiscoverLate(r) ==
    /\ orders[r].place = "late"
    /\ \E found \in {orders[r].found, {}} : tools' = found
    /\ orders' = [OrderTo(r, "over") EXCEPT ![r].done = TRUE]
    /\ UNCHANGED <<links, secrets, stored, drafts, stale, index, calls, aged, mislaid, mishaps>>

-----------------------------------------------------------------------------
(***************************************************************************)
(* Saving, testing and deleting the connection                             *)
(***************************************************************************)

\* The connection as the request will save it, by what is there now.
Edited(r, at, on) ==
    [id |-> IF Connection = {} THEN r ELSE links[1].id, at |-> at, on |-> on]

\* What a request remembers: the connection it is about, as it was and its token.
Job(k, was, old) == [NoOrder EXCEPT !.link = k, !.was = was, !.old = old]

\* change: a token to set, "keep", or "clear".
BeginSave(r, at, on, change) ==
    LET k == Edited(r, at, on)
        job == Job(k, Connection, IF Connection = {} THEN NoToken ELSE TokenOf(k.id))
    IN /\ r \in Orders /\ orders[r].place = "free"
       /\ \A q \in Orders : q < r => orders[q].place # "free"
       /\ IF change \in Tokens \/ (change = "clear" /\ k.id \in DOMAIN secrets)
          THEN LET left == IF change = "clear" THEN WithoutSecret(k.id)
                           ELSE WithSecret(k.id, change)
               IN /\ secrets' = left
                  /\ Draft("vault", r, left)
                  /\ orders' = [orders EXCEPT ![r] = [job EXCEPT !.place = "token"]]
                  /\ UNCHANGED links
          ELSE /\ links' = WithLink(k)
               /\ Draft("connections", r, WithLink(k))
               /\ orders' = [orders EXCEPT ![r] = [job EXCEPT !.place = "link"]]
               /\ UNCHANGED secrets
       /\ UNCHANGED <<stored, stale, tools, index, calls, aged, mislaid, mishaps>>

\* The token is written; now the connection.
SaveLink(r) ==
    /\ orders[r].place = "token"
    /\ links' = WithLink(orders[r].link)
    /\ LandAndDraft("vault", r, "connections", WithLink(orders[r].link))
    /\ orders' = OrderTo(r, "link")
    /\ UNCHANGED <<secrets, tools, index, calls, aged, mislaid, mishaps>>

\* A failed save puts back the connection and the token it found.
Reverted(r) ==
    IF orders[r].was = {} THEN WithoutLink(orders[r].link.id)
    ELSE WithLink(CHOOSE k \in orders[r].was : TRUE)
ReturnedToken(r) ==
    IF orders[r].old = NoToken THEN WithoutSecret(orders[r].link.id)
    ELSE WithSecret(orders[r].link.id, orders[r].old)
FailSave(r) ==
    \E f \in Files :
       /\ orders[r].place = (IF f = "vault" THEN "token" ELSE "link")
       /\ links' = Reverted(r)
       /\ secrets' = ReturnedToken(r)
       /\ LET writes == orders[r].old # NoToken \/ orders[r].link.id \in DOMAIN secrets
          IN /\ Spoil(f, r, IF writes THEN [g \in {"vault"} |-> ReturnedToken(r)] ELSE <<>>)
             /\ orders' = OrderTo(r, IF writes THEN "undoing" ELSE "over")
       /\ UNCHANGED <<tools, index, calls, aged>>

BeginDelete(r) ==
    /\ r \in Orders /\ orders[r].place = "free"
    /\ \A q \in Orders : q < r => orders[q].place # "free"
    /\ \E k \in Connection :
          LET job == Job(k, {k}, TokenOf(k.id))
          IN IF k.id \in DOMAIN secrets
             THEN /\ secrets' = WithoutSecret(k.id)
                  /\ Draft("vault", r, WithoutSecret(k.id))
                  /\ orders' = [orders EXCEPT ![r] = [job EXCEPT !.place = "untoken"]]
                  /\ UNCHANGED links
             ELSE /\ links' = WithoutLink(k.id)
                  /\ Draft("connections", r, WithoutLink(k.id))
                  /\ orders' = [orders EXCEPT ![r] = [job EXCEPT !.place = "unlink"]]
                  /\ UNCHANGED secrets
    /\ UNCHANGED <<stored, stale, tools, index, calls, aged, mislaid, mishaps>>

DropLink(r) ==
    /\ orders[r].place = "untoken"
    /\ links' = WithoutLink(orders[r].link.id)
    /\ LandAndDraft("vault", r, "connections", WithoutLink(orders[r].link.id))
    /\ orders' = OrderTo(r, "unlink")
    /\ UNCHANGED <<secrets, tools, index, calls, aged, mislaid, mishaps>>

FailDelete(r) ==
    \E f \in Files :
       /\ orders[r].place = (IF f = "vault" THEN "untoken" ELSE "unlink")
       /\ links' = WithLink(orders[r].link)
       /\ IF orders[r].old # NoToken
          THEN /\ secrets' = WithSecret(orders[r].link.id, orders[r].old)
               /\ Spoil(f, r, [g \in {"vault"} |-> WithSecret(orders[r].link.id, orders[r].old)])
               /\ orders' = OrderTo(r, "undoing")
          ELSE /\ UNCHANGED secrets
               /\ Spoil(f, r, <<>>)
               /\ orders' = OrderTo(r, "over")
       /\ UNCHANGED <<tools, index, calls, aged>>

\* The token put back is written too; that this fails is ignored.
EndUndoing(r) ==
    /\ orders[r].place = "undoing"
    /\ \/ LandDraft("vault", r) /\ UNCHANGED <<mislaid, mishaps>>
       \/ Spoil("vault", r, <<>>)
    /\ orders' = OrderTo(r, "over")
    /\ UNCHANGED <<links, secrets, tools, index, calls, aged>>

\* The connection is written or gone: the catalogue is read again before the
\* request is answered.
Changed(r) ==
    /\ orders[r].place \in {"link", "unlink"}
    /\ LandDraft("connections", r)
    /\ BeginRefresh(r, NoOrder)
    /\ UNCHANGED <<links, secrets, index, calls, aged, mislaid, mishaps>>

\* A test asks the server of an enabled connection for its tools.
MayTest == Enabled # {}

\* A test that succeeds reads the catalogue again too.
TestLink(r) ==
    /\ r \in Orders /\ orders[r].place = "free"
    /\ \A q \in Orders : q < r => orders[q].place # "free"
    /\ MayTest
    /\ BeginRefresh(r, NoOrder)
    /\ UNCHANGED <<links, secrets, stored, drafts, stale, index, calls, aged, mislaid, mishaps>>

-----------------------------------------------------------------------------
(***************************************************************************)
(* Tool calls                                                              *)
(***************************************************************************)

\* The arguments of a proposed call go to the vault before the call is saved.
ProposeCall(c) ==
    /\ calls[c] = "new"
    /\ ToolOf[c] \in tools
    /\ calls' = [calls EXCEPT ![c] = "storing"]
    /\ secrets' = WithSecret(c, "arguments")
    /\ Draft("vault", c, WithSecret(c, "arguments"))
    /\ UNCHANGED <<links, stored, stale, orders, tools, index, aged, mislaid, mishaps>>

\* The registry refuses a proposal of a skill it has no adapter for: the turn
\* fails, and nothing deletes the arguments.
Registered(c) == ToolOf[c] \in index
StoreCall(c) ==
    /\ calls[c] = "storing"
    /\ \/ /\ LandDraft("vault", c)
          /\ calls' = [calls EXCEPT ![c] = IF Registered(c) THEN "parked" ELSE "unsaid"]
          /\ UNCHANGED <<mislaid, mishaps>>
       \/ /\ Spoil("vault", c, <<>>)
          /\ calls' = [calls EXCEPT ![c] = "unsaid"]
    /\ UNCHANGED <<links, secrets, orders, tools, index, aged>>

\* An approved call with connection, tool and arguments goes out; without the
\* first two it waits, without the arguments it has failed.
Available(c) == Enabled # {} /\ ToolOf[c] \in tools
ExecuteCall(c) ==
    /\ calls[c] = "parked"
    /\ Available(c)
    /\ calls' = [calls EXCEPT ![c] = IF c \in DOMAIN secrets THEN "calling" ELSE "settled"]
    /\ UNCHANGED <<links, secrets, stored, drafts, stale, orders, tools, index, aged, mislaid, mishaps>>

\* However the call ended, its arguments are deleted; so are those of a call
\* that was refused.
Clear(c, from) ==
    /\ calls[c] = from
    /\ secrets' = WithoutSecret(c)
    /\ IF c \in DOMAIN secrets
       THEN Draft("vault", c, WithoutSecret(c)) /\ calls' = [calls EXCEPT ![c] = "clearing"]
       ELSE UNCHANGED drafts /\ calls' = [calls EXCEPT ![c] = "settled"]
    /\ UNCHANGED <<links, stored, stale, orders, tools, index, aged, mislaid, mishaps>>
EndCall(c) == Clear(c, "calling")
DiscardCall(c) == Clear(c, "parked")

MutSettle(c) == calls' = [calls EXCEPT ![c] = "parked"]
Settle(c) == calls' = [calls EXCEPT ![c] = "settled"]
Cleared(c) ==
    /\ calls[c] = "clearing"
    /\ \/ LandDraft("vault", c) /\ UNCHANGED <<mislaid, mishaps>>
       \/ Spoil("vault", c, <<>>)
    /\ Settle(c)
    /\ UNCHANGED <<links, secrets, orders, tools, index, aged>>

\* A day passes for the arguments of a call.
Grow(c) ==
    /\ calls[c] = "parked" /\ c \notin aged
    /\ aged' = aged \cup {c}
    /\ UNCHANGED <<links, secrets, stored, drafts, stale, orders, tools, index, calls, mislaid, mishaps>>

-----------------------------------------------------------------------------
(***************************************************************************)
(* Death and start of the server                                           *)
(***************************************************************************)

\* open(): the arguments older than a day are deleted, from the file too.
MutExpired == DOMAIN stored["vault"] \cap Invocations
Expired == DOMAIN stored["vault"] \cap aged
Swept == [x \in DOMAIN stored["vault"] \ Expired |-> stored["vault"][x]]
Reopen ==
    /\ links' = stored["connections"]
    /\ secrets' = Swept
    /\ stored' = [stored EXCEPT !["vault"] = Swept]

\* What was under way is gone; a call that was out has an unknown outcome, and
\* one whose arguments were being stored was never saved.  A file that lacks
\* the newest write is what the memory holds from now on.
DieLinked ==
    /\ mishaps < MaxMishaps
    /\ mishaps' = mishaps + 1
    /\ Reopen
    /\ drafts' = [f \in Files |-> <<>>]
    /\ mislaid' = mislaid \cup {"left"} \cup (IF "vault" \in stale THEN {"taken"} ELSE {})
    /\ stale' = {}
    /\ orders' = [r \in DOMAIN orders |->
                    IF r = Start \/ orders[r].place = "free" THEN NoOrder
                    ELSE [NoOrder EXCEPT !.place = "over"]]
    /\ tools' = {}
    /\ index' = {}
    /\ calls' = [c \in Invocations |-> CASE calls[c] \in {"calling", "clearing"} -> "settled"
                                         [] calls[c] = "storing" -> "unsaid"
                                         [] OTHER -> calls[c]]
    /\ UNCHANGED aged

\* The listener does not wait for the discovery.
StartDiscovery ==
    /\ orders[Start].place = "free"
    /\ BeginRefresh(Start, NoOrder)
    /\ UNCHANGED <<links, secrets, stored, drafts, stale, index, calls, aged, mislaid, mishaps>>

OwnerStep ==
    \/ \E r \in Orders, at \in Endpoints, on \in BOOLEAN, change \in Tokens \cup {"keep", "clear"} :
          BeginSave(r, at, on, change)
    \/ \E r \in Orders : BeginDelete(r) \/ TestLink(r)
RequestStep ==
    \E r \in Orders \cup {Start} :
       \/ SaveLink(r) \/ FailSave(r) \/ DropLink(r) \/ FailDelete(r) \/ EndUndoing(r)
       \/ Changed(r) \/ Discover(r) \/ Reindex(r) \/ TimeOutRefresh(r) \/ DiscoverLate(r)
CallStep ==
    \E c \in Invocations :
       \/ ProposeCall(c) \/ StoreCall(c) \/ ExecuteCall(c) \/ EndCall(c) \/ DiscardCall(c)
       \/ Cleared(c) \/ Grow(c)
LinkNext == OwnerStep \/ RequestStep \/ CallStep \/ DieLinked \/ StartDiscovery
LinkSpec == LinkInit /\ [][LinkNext]_linkVars

-----------------------------------------------------------------------------
(***************************************************************************)
(* Properties                                                              *)
(***************************************************************************)

AtRest == \A f \in Files : drafts[f] = <<>>

\* The arguments of a call that may still go out are in the vault, unless they
\* were swept after a day or the server started from an overtaken text; and
\* once it is settled and nothing is being written they are nowhere, unless a
\* write failed or landed out of order or the server died.  The same file holds the tokens: a
\* connection saved or deleted at the same time takes no arguments with it and
\* brings none back (integration-service.ts and integration-secret-vault.ts).
ArgumentsFollowCalls ==
    /\ \A c \in Invocations : calls[c] = "parked" /\ "taken" \notin mislaid => c \in DOMAIN secrets \cup aged
    /\ AtRest /\ stale = {} /\ mislaid = {} =>
          /\ secrets = stored["vault"]
          /\ links = stored["connections"]
          /\ \A c \in Invocations : calls[c] = "settled" => c \notin DOMAIN secrets

\* A catalogue that could not be read in time stays empty (the comment in
\* refreshMcpCatalog): after a discovery was given up and no other one began,
\* the adapter offers no tool.
UnreadIsEmpty ==
    \A r \in Orders \cup {Start} :
       /\ orders[r].place = "over" /\ orders[r].done
       /\ \A q \in Orders \cup {Start} : q # r => orders[q].place = "free"
                                                  \/ (q < r /\ orders[q].place = "over")
       => tools = {}

\* When no discovery is under way and none was given up, the registry has an
\* adapter for exactly the tools the adapter offers.
IndexFollowsTools ==
    (\A r \in Orders \cup {Start} : orders[r].place \in {"free", "over"} /\ ~orders[r].done)
       => index = tools
=============================================================================
