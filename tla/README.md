# Verification of sip-nemo

TLA+ models, TLC runs and TLAPS proofs for the code under `src/nist-2`: an ns-2
simulation of a *mobile router* (MR) that keeps the SIP calls of the nodes behind
it alive while its uplinks come and go, with the NIST 802.21 (MIH) and Mobile
IPv6/NEMO add-ons it is built on. `src/ns-2.29-ori` is the upstream simulator and
`src/ns-2.33` an older port; neither is maintained here and neither is modelled (section 6).

The repository has no design document. Its comments, debug texts, asserts and Tcl
scenarios are what the properties are taken from.

## 1. Inventory

The simulator is single threaded and event driven: one event (a packet arrival or
a timer) runs to its end before the next. A direct call between two agents is
therefore part of the caller's step. What interleaves is the *order* of events:
packets of several nodes, timers, link events. A failed `assert`, a null
dereference or a division by zero ends the process.

| Component | Code | State | Operations | What makes it correct |
|---|---|---|---|---|
| SIP agent of the MR | `sip/udp-mysip.cc` | `siplist_head_` (entries of uplinks, MNs, CNs), `round_count`, `weight_count`, `weight_count2` | `recv` by method, `send_reg_msg`, `re_homing`, five policies (`select_`) | every MN is bound to an address a live uplink owns; packets leave through the owner; MNs are spread as the policy says |
| SIP agent of home agents and CNs | same file | bindings per URL | REGISTER, method 9, re-INVITE | the last binding sent is the one kept |
| Segmentation, reassembly | `udp-mysip.cc` 195-311, 884-929 | `asm_info` | `sendmsg`, `recv` | a message is delivered once, whole |
| SIP application | `sip/mysip-app.cc` | call state, sequence numbers | INVITE, 200 OK, ACK, data, measurement | a call is set up, data goes to the present contact |
| Neighbour discovery (host) | `hsntg/nd.cc` | prefix list with timers, RS timer and count | `recv_ads`, `send_rs`, `timeout` | prefixes live while advertised; solicitation is bounded and ends |
| Neighbour discovery (router) | same file | RA timer, reply timers | `recv_rs`, `process_rsreply`, `timeout`, start-ra, stop-ra | every solicitation is answered in time, by an answer or a periodic RA |
| `Handover1` | `hsntg/802_21/handover-1.cc` | none of its own (subscription `case_`) | link up/down/going down/detected, new and expired prefix | the registered contact is the interface's address |
| Flow requests | `hsntg/mip6.cc` 370-688, `handover-infocom.cc` | `FlowEntry`s, `seqNumberFlowRequest_`, timer, `list_nodes` | request, response, redirect, resend | a response moves a flow only if it was accepted; only the loss of a link makes a flow worse off; a lost request is resent |
| NEMO bindings and tunnels | `hsntg/mip6.cc` 974-3226, `nemo/nemo.cc` | `bulist_head_`, the tunnel vector of each packet | BU, BACK, REHOME, tunnelling, `re_homing` | packets are decapsulated as often as encapsulated; home agents forward to a working uplink; nothing circulates |
| MIH function | `hsntg/mih*.cc` | subscriptions, sessions | events, commands | unchanged from NIST; a local event is a direct call |
| 802.11 MAC, association | `mac/mac-802_11.cc` | `bss_id_`, `hdv_state_`, `bssTimer_`, `pktManagement_`, retry count; client list of an access point | beacon, association request and response, retries, timers, link commands | the link events name the access point in use; a station in range gets connected, one out of range notices |
| Rest of the MAC, queues, other handover policies | `mac/`, `hsntg/` | - | - | upstream code, environment of the model |

How they interact: the MAC raises link events, the MIH function calls `Handover1`;
`Handover1` asks `NDAgent` to solicit a router; `NDAgent` raises new and expired
prefixes to `MIPV6Agent::process_nd_event`, which calls `Handover1`; `Handover1`
calls `send_reg_msg` or `re_homing` of the SIP agent. All of these are direct
calls. `MIPV6Agent` objects of different nodes exchange packets, but packets carry
*pointers* to the sender's `FlowEntry` objects.

What is hard here: three independent causes of `re_homing` for one uplink (a link
down, a *faked* link down, an expired prefix) in any order with advertisements;
loops that redistribute MNs over a changing number of uplinks; contacts compared
by value, where -1 is a value as well; timers cancelled or restarted by answers to
another request; packets that left through different uplinks and overtake each other;
shared flow records. `PROJECT.json` lists each hazard at its line.

## 2. Plan

Done, in this order:

1. `SipBinding` - the binding list of the MR, all policies.
2. `NDHost` - prefixes and router solicitation.
3. `MobileRouter` - composes 1 and 2 through `Handover1`.
4. `FlowRequest` - request/response with loss and shared records.
5. `NemoTunnel` - the MIPv6/NEMO mode end to end: bindings, tunnels, re-homing.
6. `BindingService` - what the SIP agent promises, and the refinement from 1.
7. `SipSession` - composes 1 with home agents, CN, MN and the application at both
   ends: call set-up, re-homing and reassembly with messages in flight.
8. `NDLink` - composes 2 with the router side of neighbour discovery, in time.
9. `Association` - the association part of the 802.11 MAC, the source of link events.

Left: the referring router (`exp_mr_` > 0) in
`SipBinding` and `NemoTunnel`; the base-station mode of neighbour discovery (`mr_bs`).

## 3. Modules

### SipBinding
`UdpmysipAgent` on a node of type `SIP_MR`, with `exp_mr_ = 0`. The single list
`siplist_head_` is kept as `con` (contact of each uplink entry; -1 is `None`),
`mnlist` (MN entries, newest first), `mncon` (their contacts) and `cns`. Uplink
entries are created by `set-sip-mr` before the simulation starts and never
removed, so they are numbered from the head of the list. An address is a pair of
uplink and prefix, since `compute_new_address` keeps the interface's host part.
`sent` holds the packets of the last handler, with the interface they leave through, and
`late` the router's own REGISTERs, which `send_reg_msg` schedules 0.1 s ahead: all have the
same delay, so it is a FIFO queue, and nothing takes a REGISTER back when its uplink is lost
meanwhile. An MN's REGISTER carries the URL of the uplink's entry (`Url`), not its contact.

One action per handler: `recv_register` (method 5), `recv_from_mn`, `recv_from_cn`
(0, 7), `recv_200ok_*` (1), `recv_temp_move` (6), `recv_rehoming` (9), `recv_refer` (11),
`recv_reinvite` (12), `recv_mn_bu` (13), `send_reg_msg`, `late_register`, `re_homing`. Method 14
belongs to the referring router and is left out. The answer to a 302 (method 6) leaves through
the uplink of the MN's subnet under every policy, dead or not. A packet of an MN without an
entry is taken for one of a CN, as in the code. The policies are
`Pick` (for a new MN), `RehomeContacts` (an uplink is lost) and `Renewed` (an uplink
got an address). Random draws are existential choices. `weight_2` reads `mr_ha[1]`
of a vector that may have one element: the model lets the read yield any contact or
end the process. Handlers that find nothing to work with end the process: `Stop`.
`round_count` is an unbounded `int` of which only remainders are used; it is kept
modulo `RoundMod`, a multiple of every possible divisor. Overflow of the `int`
(2^31 registrations) is out of scope.

### BindingService, and the refinement
What a user of the MR sees, without addresses, lists and counters: `live` uplinks,
`members` (registered MNs) and `via`, the uplink each is served by. An MN joins and is
served by a live uplink if there is one; an uplink comes and may take over any MNs, and
takes all that have none; an uplink goes and its MNs, and only those, move to live uplinks.
`SipBinding!ImplementsService` is its specification with `live`, `members` and `via` computed
from the list (`ServedBy(m)` is the uplink that owns the contact of m).

### NDHost
`NDAgent` with `router_ = 0`, one per interface. Time is abstracted: a pending
timer may fire at any time. A prefix timer that fires although the router is there
stands for three lost advertisements. `MCNDHost` adds the history variable `tries`.

### NDLink
The router side of `NDAgent` and the link to the hosts of `NDHost`. `recv_rs` compares
times, so time is discrete here: `since`, `nextRA` and the reply timers count units of
`rs_timeout_`, and `Tick` moves the clock when everything due was done (the scheduler's
order). A packet crosses the link or is lost within its unit. `start_ra` and `stop_ra` are the
Tcl commands. `due[n]` is history: how long the oldest RS of n that reached the
router has been waiting.

### SipSession
One call over six parties: CN, MN_HA, MR_HA, the MR (an instance of `SipBinding` with
`select_` 0, two uplinks, one MN), the MN and its application. INVITE to MN_HA, 302 to
MR_HA, 302 to a care-of address, INVITE through the MR, 200 OK with the MN's
contact, data. `net[d]` holds the packets for d in the order of sending, each with its path
(the wire, or the uplink it left through); the oldest of each path may arrive next, so packets
on one path keep their order and packets on different paths overtake each other, in both
directions: a frame may wait in the MAC of one uplink while the other, of another
technology, delivers. The REGISTERs in `late` race the method 9 that `re_homing` sends at once.
`crossed` is history: the nodes at which a contact arrived before an older, different one for
the same entry. The messages carry no sequence number, so the older one then stays; the two properties on
the final contact leave such runs out, and without that exception TLC finds, within four link
changes, a 200 OK through one uplink overtaken by method 9 through the other
(`ReachesRouter`) and a REGISTER overtaken in the same way (`HomeFollows`). A packet through
a dead uplink or for an address nobody has is lost, and data may be lost on the
last hop. `Reassemble` is the update of the one buffer `asm_info`. `fault` is the null
dereference of a home agent that gets an INVITE before any REGISTER.

### Association
One station and the access points on its channel. A transmission and its ACK are one step
with three outcomes: acknowledged, ACK lost, lost. The retries of request and
response are independent, so late responses of an earlier access point occur.
`near` (coverage) changes freely until `Settle` makes the radio `calm`: from then
on nothing moves or is lost and no command or client timeout comes. `up` is history: what the link events
told the handover manager. The model needs no bound on behaviour length; `MaxResp` bounds the
responses waiting at one access point. `MobileRouter` takes these events as its environment:
`Associate` is a link up, `LoseLink` a link down, which may also come for an uplink that
was not up.

### MobileRouter
Instances of `SipBinding` and `NDHost` wired through `Handover1`. `attach` is the
point of attachment of each uplink (environment), `prefix` the prefix in its
node address. `case_` selects the link events `register_mih` subscribes to. `LateRegister` is
the SIP agent's REGISTER 0.1 s after `process_new_prefix`.

### FlowRequest
The protocol of `MIPV6Agent` with the handlers of `InfocomHandover`: `process_new_prefix` asks
for the flows on worse interfaces; `process_link_down` moves the flows of the lost interface to
one of the best that are up without asking anyone, unless an interface is connecting
(`connecting`, set by `process_link_detected` and cleared only by `process_link_up` of the same
interface). Status changes are those of the MIH function, which precede the handler.
The first statement of `process_link_down` reads the pointer `config` before it is set
(`handover-infocom.cc:203`; `debug` is a function, so its arguments are always evaluated): the
model goes on or stops (`crashed`). `displaced` is history: the flows a lost link has moved and
for which nothing was asked since. A request is not withdrawn when that happens.
`handover-infocom.cc` is named in no Makefile of the repository and uses an older interface of the
MIH function; it is modelled because nothing else calls `send_flow_request`.

`net` is a bag of packets that may be lost or overtaken. A packet names its
flows but has no copy of their fields: `tmp_iface` and `redirect` are read and
written when the packet is received, as the pointers in the packet make the code
do. A base station refuses when the BSS is number 8, an input here. `MCFlowRequest`
adds the history variables `moves` (by responses) and `accepts`.

### NemoTunnel
`MIPV6Agent` on the six kinds of nodes of `tcl/sip/mipv6-v-to-i.tcl`: an MR with two
uplinks, their home agents, an MN behind the MR, a CN, and the home agent of both
(`exp_ 4`, `exp_mr_ 0`, no base-station router). `tbl` holds each node's
`bulist_head_` as a sequence searched from the head; which of several matching
entries is found is part of the behaviour. A packet is a record with the addresses
of its IP and NEMO headers and its stack of tunnels; `zone` says whether it is
inside the MR's network or outside. `net` is a set, so packets overtake each other; a copy
of a packet identical to one in flight is not kept apart. Handler and node type give the
action: `mr_recv_bu`, `ha_recv_rehome`, `mn_tunneling` and so on are the branches of
`recv_nemo` and `tunneling`. `LinkDown`, `PrefixExpired` and `LinkUp` are the handlers of
`Handover1` with the `re_homing` and `send_bu_msg` they call. A failed assert or a
null entry sets `abort`, and nothing happens any more.

`Receiver` is routing, external to the code: a packet for a home address or for the
address of a lost uplink reaches nobody. `told` and `got` are history: what the MR last
announced for each home address, and what the applications received. An
application first calls the home address of the other and then uses the contact in the
SIP header it got, which is the care-of address.

What `Init` and the guards leave out: the first registration of the uplinks (they start
registered), uplinks that change address, links lost before the MN has registered
(`re_homing` asserts an MN entry, `mip6.cc:3153`; the scenario waits), and applications
that start before both hosts are registered at home (the scenario starts them seconds
later).

Operators that begin a definition with a comment `Mutation:` are wrong variants of
the definition after them; each makes one property fail and shows that the property
depends on that code.

## 4. Runs

| Run | Bounds | Result |
|---|---|---|
| `sip_weight` | 3 uplinks, 3 MNs, 2 prefixes, readdressing, 2 REGISTERs scheduled | 242 591 states. `BoundToLive`; the assert of `recv` never fails, no MN is orphaned; `OutThroughLive`: what is sent for an MN leaves through the live uplink of its contact, with the two exceptions it names; every behaviour is one of `BindingService` (`ImplementsService`). |
| `sip_policies` | `select_` 0 (1 MN), 1 and 4 (2 MNs, 2 prefixes), 2 (4 MNs, 1 prefix), 3 uplinks (2 for `select_` 0) | 419 000 states. No MN keeps a lost address (`PolicyBoundToLive`, all but `weight_2`); one entry per MN, whatever the out-of-bounds read of `weight_2` gives (`PolicyOneEntry`); contacts are lost only with the last uplink (`PolicyLosesOnlyLast`); round robin spreads the MNs of a lost uplink to within one (`RoundEvenSpread`) and gives an uplink that comes back no fewer MNs than any other (`RoundRenewShare`). |
| `sip_session` | 2 uplinks, 5 link changes, 1 registration, 2 messages of 2 fragments, 1 fragment lost | 1 011 884 states. `PeersKnown`: the asserts on MN and CN entries hold in a call. `DeliveredWhole`: the application gets no message with fragments missing. `ReachesRouter`, `HomeFollows`: after the last link change CN and MR_HA hold addresses of live uplinks, unless all uplinks were lost at once or a message about the contact was overtaken. `CallConnects`. |
| `sip_rr_assert` | round robin | **violation** of `ForwardAssert`, see findings. |
| `nd_link` | 1 host, 3 tries, 2 losses, 2 start/stop commands, intervals 2..5, delay 3 + 1 | 200 194 states. `AtMostMaxRS`, `SolicitationEnds`; `AnswerDeadline`: an advertisement follows an RS within `maxRADelay_ + minDelayBetweenRA_`; `LearnsPrefix`: a full solicitation ends with the prefix known. |
| `association` | 2 access points, 3 tries, 2 waiting responses | 179 208 states. `EventsMatch`: the link events name the access point in use. `PendingIsServed`: a pending client has a response waiting. `Associates`: a disconnected station gets and stays connected once the radio is calm. `LeavesLostAP`: a lost access point is left. |
| `router_roaming` | 2 uplinks, 2 PoAs, 2 MNs (symmetric), no CN, 1 REGISTER scheduled, all link events | 1.46 million states. `ContactIsCurrent`, `NoOrphan`. |
| `router_reattach` | 2 uplinks, fixed coverage, `case_` 2 | **violation** of `AttachedRegisters`. |
| `flow_request` | 2 flows, a UMTS, an 802.11 and an Ethernet interface, 3 link changes, 2 answered requests, 3 packets on the air | 319 517 states. `MovesBacked`: responses move a flow no more often than it was accepted. `NeverWorse`: only the loss of a link makes a flow worse off, or a late response after one. `TimerStops`. |
| `flow_request_alias` | 1 flow, 3 link changes | **violation** of `MovesWhereAccepted`. |
| `nemo` | uplink 1 may be lost twice, 2 application packets, losses | 66 870 states. `TunnelsMatch`: the assert of `delete_tunnel` holds on every path. `DeliveredClean`: no tunnel is left on a delivered packet and the correspondent's address is under it. `EntriesFound`: no null entry, no failed assert at the MR and its home agents. `InboundLive`: home agents that have the last announcement forward to a working uplink. `Drains`: no packet circulates. |
| `nemo_home` | the same, 3 application packets | **violation** of `HomeAssert`. |

Why the bounds are enough. Three uplinks and four MNs are the smallest numbers for
which two uplinks are left after a loss and one of them gets two of the MNs, and
for which the renewal loop meets three different old contacts. Two prefixes are
needed for an uplink to change its address. Two points of attachment let a prefix of
the old one expire after an address was taken from the new one. Two answered
requests and three packets on the air hold a duplicate response of the first
request together with the second request and its answer; `MaxListed` is at least
`MaxSeq`, so saturation of the count hides no acceptance. Three link changes bring up both
better interfaces and lose one again, so a flow is displaced while requests for it are on the
air; without the exception for displaced flows TLC finds a run of seven states against
`NeverWorse`. Two scheduled REGISTERs are one that is stale and the one that follows it; the CNs
add nothing to the properties of `router_roaming`.

In `sip_session` the changes allow a loss, a return and a loss of the other uplink while the
call is set up, with a late REGISTER of each; two messages of two fragments
meet in the buffer with one lost fragment. In `nd_link` the losses are one fewer
than the tries, so that `LearnsPrefix` is not excused; two commands stop and restart
the advertisements; the delay between RAs exceeds the shortest interval, so both
suppression rules and the delayed answer occur. In `association` two access points are
what a late response of the other one needs, and three tries leave a retry count from
0 to the limit.

In `nemo`, losing the uplink twice gives every order of two link-down REHOMEs, two
expiry REHOMEs and the BU of the return; two packets are a call and its answer, in
either direction. One uplink is flaky: with both, `InboundLive` fails, because
`get_entry_by_iface` finds the MN's entry for uplink 1 and a returning uplink 1 is
never announced. Nothing in the repository promises that two uplinks may fail, so this is
a hazard of the list and no finding.

No deadlock check where the system may stop: the process may end at an assert, an
uplink may sit idle, and the flow protocol ends when all flows have moved or the bounds are used up.

**Fairness.** `NDHost` and `FlowRequest`: weak fairness of timers, since the scheduler of
the simulator dispatches every pending event. `FlowRequest`: strong fairness of receiving a
request and a response, since a radio that loses packets does not lose every one of
an unbounded number of retransmissions. `MobileRouter`: fairness of receiving an
advertisement while associated (routers advertise periodically), weak fairness of a
prefix timer when no router is heard and of the scheduled REGISTER; the first is strong only because the bound
`MaxLate` disables it now and then. `FlowRequest` also has weak fairness of receiving a redirect.
`SipSession`: weak fairness of the arrivals and scheduled REGISTERs together,
since the scheduler goes on while events are pending; link events, commands, application timers and losses
are free. `NDLink`: weak fairness of the clock, of timers that are due and of packets on the
link, which is the scheduler's loop. `Association`: weak fairness of beacons in range (they are periodic),
of the beacon timer when the access point is away, and of sending a frame the MAC holds.
`NemoTunnel`: weak fairness of the network as a whole (`Transport`), as the
scheduler dispatches every packet arrival; link events, losses and sends are not fair. Neither the environment (association, loss of
links) nor SIP packets are fair.

### Findings
* `sip_rr_assert`: all uplinks lost, then regained. The renewal loop moves only a share of
  the MNs, the others keep contact -1. Such an MN finds "its" uplink as long as a dead
  one has -1 as well; with all uplinks up the assert `bu!=NULL` (`udp-mysip.cc:493`) fails.
* `router_reattach`: a link comes back before its prefix expired. The contact was cleared by
  the link down; the advertisement only refreshes the prefix, and no registration follows.
* `flow_request_alias`: a second request overwrites `tmp_iface` while the first, with
  the same sequence number, is on the air.
* `nemo_home`: MN and CN learn each other's addresses from BUs that are not resent. If the
  MN's BU to the CN is lost or overtaken by the MN's answer, the CN makes an entry
  with addresses 0 from that answer; its next packet goes to MN_HA with the MN's care-of
  address inside, and the assert at `mip6.cc:2421` fails. `EntriesFound` therefore leaves
  that assert out.

Met while modelling, and kept as hazards with their lines: a stale response cancels the timer of a
lost flow request, which is then not resent (`mip6.cc:652`); `connectingMac_` stays set after a failed
attempt, and flows then stay on an interface that is lost (`handover-infocom.cc:210`); the INVITE that answers a 302
may leave through a dead uplink (`udp-mysip.cc:1727`); an access point fails `assert(found)`
if a client entry expires between a repeated request and its ACK (`mac-802_11.cc:2758`); a
station whose response was given up stays in `MAC_BEING_CONNECTED` while it hears that access
point (`mac-802_11.cc:3023`); an INVITE before the first REGISTER makes a home agent read a null entry
(`udp-mysip.cc:1621`); after a total outage the CN keeps an old address.

With `select_` 0 and two MNs `re_homing` moves only the newest MN; the other one
runs into the same assert. The policy is therefore checked for one MN only.

## 5. Proofs

All for every number of uplinks, MNs, CNs, prefixes, points of attachment, access points, flows,
messages and fragments, and for every value of the bounds (`SipSession` and `NemoTunnel` have the two uplinks and
the six nodes of the scenario; their bounds are on packets, messages and link events).

`SipBinding_proofs`
* `TypeCorrect`: `TypeOK` is an invariant, for every policy. Rests on `NthExists`
  (every index below the size of `mr_ha` finds an entry: counting smaller elements is an
  injection into 0..n-1, hence onto) and `FirstExists`.
* `BindingsAreLive`: `BoundToLive`, for the weight policy, for random and round robin if an
  uplink gets an address only while it has none, and for `select_` 0 if in addition there is one
  MN (`SoundPolicy`). The assumption is needed: those policies move only some MNs when an
  uplink changes its address.
* `WeightNoOrphan`, `WeightForwards`: `NoOrphan` and `ForwardAssert` for the weight policy.
  `ForwardAssert` is not inductive: it needs that each registered MN has an owner,
  which is `BoundToLive` when its contact is an address, and, when it is -1, needs a dead
  uplink. The latter holds since by `NoOrphan` an orphan means that *all* are dead.
  The lemma `Effects` reduces the kinds of steps to four (no change of bindings, one
  MN bound to a live uplink, a new address, a lost uplink).
* `WeightOutThroughLive`: `OutThroughLive` for the weight policy, from the same invariants: what a
  handler sends goes to the owner of the MN's contact, and that owner is live. For the router's own
  REGISTERs it needs `LateFollows`: each scheduled address is the present one of its uplink, or the
  uplink is lost, or the REGISTER of the present one is further back in the queue.
* `EntriesAreUnique`: `OneEntry` for every policy; `ContactsLostLast`: `LosesOnlyLast` for random,
  round robin and weight.
* `RoundSpreadsEvenly`: `EvenSpread` for round robin, for any number of MNs and uplinks and any
  `round_count`. Invariants are the types and `OwnAddress` (an address names its uplink). `Rank`
  numbers the MNs of the lost uplink from 0 without gaps (`RankBijection`, by `CountBelow`), so
  the MNs an uplink gets are the turns of one residue class, and shifting one class into the
  other loses at most one turn (`TurnsEven`).
* `RoundRenewsShare`: `RenewShare` for round robin. The loop of
  `renew_mn_coa_entry_round_robin` tells only the first contact it meets from all the others; the
  invariant of the loop (`CountsMatch`) says that `new_count` is the number of entries moved, that
  `old1_count` and `old2_count` are one more than the entries kept with the first contact and
  with any other, and that neither is ever more than one ahead of `new_count`. A contact's MNs are among the kept ones of its kind, and
  by `OneEntry` an entry is an MN. `RenewMoved` is a recursive function: that it exists
  (`ScanExists`) and that the loop invariant holds at each entry (`CountsHold`) is
  shown for a least index at which it would fail (`LeastNat`), in place of induction.
* `WeightImplementsService`: with the weight policy `Spec => ImplementsService`. Initial states map to
  initial states, and by `Effects` each step is a `Join`, `Gain`, `Lose` or stutter of
  `BindingService`, using the invariants above: the owner of a contact is unique because an
  address names its uplink, and by `NoOrphan` an MN without a server means that none is live.

`MCSipPolicies_proofs`
* `PoliciesBindToLive`, `PoliciesOneEntry`, `PoliciesLoseOnlyLast`, `RoundSpreads`, `RoundRenews`: the five
  properties of the run `sip_policies`, as it states them, for any sets of MNs, CNs and prefixes.
  A behaviour keeps its policy, and is then one of `SipBinding` under it (`RunsAs...`), so the
  theorems above apply. `Fixed`, `Random`, `Round` and `Weight2` are the instances of the run once more, with
  the theorems (an instance with a parameter, as in `MCSipPolicies`, has none to cite);
  `Same...` shows that they are the same.

`MobileRouter_proofs`
* `ContactsAreCurrent`: `ContactIsCurrent` for every policy and `case_`. The invariant is
  inductive with the shapes of `con`, `prefix` and `nlist`. The decisive step is
  `PrefixTimeout`: only the prefix of the present address unbinds, and then it must.
* `RouterRunsSip`: `Spec => SIP!Spec`. Every step of the composed router is a step of the SIP agent or
  leaves it alone, so the theorems on `SipBinding` carry over: `RouterTypes` (with
  the types of neighbour discovery on every interface), `RouterNoOrphan` and
  `RouterImplementsService` for the weight policy.

`NDLink_proofs`
* `SolicitationBound`: `AtMostMaxRS` of the host alone. Inductive with `tries <= nb_rtr_sol + 1`: the counter is
  not reset by an advertisement, so it may run ahead of the packets sent but never behind.
  `LinkTypes`, `LinkSolicitationBound`: the same in the composition with the router.
* `AnswersInTime`: `RouterTypeOK` and `AnswerDeadline` for all intervals and delays. The invariant says what a waiting RS
  relies on: for each n with `due[n]` set there is a reply timer, or a periodic RA, at a time t
  with `due[n] + t` within the deadline. It is kept by `Tick` because both sides move by one.

`Association_proofs`
* `AssocTypes`, `LinkEvents`, `PendingServed`: `TypeOK`, `EventsMatch` and `PendingIsServed` for any number of access points, any retry
  limit and movement. `PendingIsServed` needs the whole ledger of an access point: an
  associated client has no response waiting, a pending one has one, and one that is
  not in the list leaves room for another.

`FlowRequest_proofs`
* `FlowTypes`: `TypeOK`, from an invariant that bounds the sequence numbers on the air by
  `seqNumberFlowRequest_`; a lost link adds only redirects to the air (`RedirectsOnly`).
* `FlowsNeverWorse`: `NeverWorse`. Inductive invariant: the `tmp_iface` of a flow that no
  lost link displaced is never worse than its `iface`, since a request only overwrites it with a better one, and any
  response, matching or not, moves to what `tmp_iface` holds when it arrives; a new request or a
  move by a response ends the exception.
* `MovesAreBacked`: `MovesBacked`. The history variables `moves` and `accepts` of
  `MCFlowRequest` count a flow's moves by responses and the entries base stations made for it. `MovesBacked` is
  not inductive: a response moves every flow whose `redirect_` is set when it arrives. A
  flow that some response on the air would move has an acceptance in hand (`Granted`), and
  moves at most once per sequence number.

`SipSession_proofs`
* `SessionHolds`: the inductive invariant `SessionInv` of the call. `Learned`: MN_HA and the CN
  know addresses only of an MN the router has entered. `NetOK`: packets on the way to each node fit the
  router's entries, and each data packet is in one queue once and did not
  arrive before. `Assembled`: the bytes in `asm_info` are those of a set of different packets of
  its message, all among the ones that came (`Counted`). Without the last two a packet counted twice could
  stand in for a lost one.
* `SessionTypes`, `PeersAreKnown`, `DataDeliveredWhole`: `TypeOK` (with the kinds of packets each
  node handles), `PeersKnown` and `DeliveredWhole` follow from it. The order in which packets
  arrive plays no part in them.

`NemoTunnel_proofs`

* `NemoHolds`: the inductive invariant `NemoInv`. `TablesOK` says which entries the binding
  list of each node may hold. `InFlight` says which packets may be on their way: one operator
  for each leg of a journey (BU, BACK, REHOME, data of MN and CN), with the stack of tunnels
  the packet carries there; each handler is shown to turn a leg into the next one. `NotCalled`:
  before the CN has registered, MN_HA has no entry for it and no data is on its way. The
  properties are not inductive alone: what a handler takes off a packet depends on what the
  agents before it put on, which they chose by entries that may have changed since.
* `NemoTypes`, `TunnelsAlwaysMatch`, `AlwaysDeliveredClean`, `EntriesAlwaysFound`: `TypeOK`,
  `TunnelsMatch`, `DeliveredClean` and `EntriesFound` follow from it.
* `InboundAlwaysLive`: from `NemoInv` and `LiveInv` (an uplink whose own care-of address was
  announced last is up; only an uplink that can be lost is announced otherwise; HA1 has both
  entries of a re-homing or none). The theorem assumes that one uplink is never lost
  (`Flaky # Uplinks`), and the run has `Flaky = {1}`. Without this it is false, as TLC shows
  with `Flaky = {1, 2}`: uplink 1 is lost and re-homed, comes back with no announcement, then
  uplink 2 is lost, and each home address is bound to the other one.

Only model-checked: the liveness properties (the prover has no reasoning about fairness).

## 6. Not modelled

The components with status `not_modelled` in `PROJECT.json`, with the reason. In modelled
files: logging (`dump`, `debug`, `printf`), tracing to files, Tcl binding code, packet
sizes and ports, tunnelling inside SIP handlers (`mipv6_->add_tunnel`, for a router
behind another router), the referring router (`exp_mr_` > 0), the base-station mode of
`NDAgent`, medium access and scanning of the 802.11 MAC.

By size nearly all of the repository is `src/ns-2.29-ori`, the vendored simulator (TCP, SCTP, Bluetooth, sensor
networks, generated Tcl), of which the code here uses scheduler, agents, links and radio. It has no
logic of this project and is modelled only as far as it is the environment: order of
events, loss, delay and clock. The project's own code under `src/nist-2` is what the models follow.
