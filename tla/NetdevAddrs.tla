---------------------------- MODULE NetdevAddrs ----------------------------
(***************************************************************************)
(* The cache of local addresses of libhipl/netdev.c.  hipd keeps the      *)
(* addresses of the host in the hash table "addresses" (with the counter  *)
(* address_count) because it cannot call getifaddrs while its netlink     *)
(* socket is open.  hip_netdev_init_addresses fills the cache from        *)
(* getifaddrs at startup; afterwards hip_netdev_event applies the         *)
(* RTM_NEWADDR and RTM_DELADDR messages that the kernel queues on the     *)
(* netlink socket.  One read of the socket may return several messages.   *)
(*                                                                         *)
(* Addresses are model values.  V4 are IPv4 addresses, which the cache    *)
(* stores in IPv4-mapped form; the others are IPv6 addresses.  Ignored    *)
(* are the ones filter_address rejects (loopback, link-local, ...).       *)
(* Alias relates an IPv6 address to the IPv4 address that equals its     *)
(* first 32 bits.  The cache is keyed by the whole sockaddr_storage       *)
(* (netdev_hash, netdev_match): for an IPv6 address taken from a netlink  *)
(* message this includes the port, flowinfo and scope-id bytes of the     *)
(* never initialised ss_addr, modelled as a value of Junk.                *)
(***************************************************************************)
EXTENDS Integers, FiniteSets, SequencesExt

CONSTANTS
    Addr,        \* the host's possible IP addresses
    V4,          \* the IPv4 ones
    Ignored,     \* the ones filter_address returns FA_IGNORE for
    Alias,       \* <<a6, a4>>: the first 32 bits of a6 are the address a4
    Ifaces,      \* interface indexes
    WhiteList,   \* hip_netdev_white_list (empty: every interface)
    Junk,        \* contents of the uninitialised bytes of ss_addr
    MaxInit,     \* addresses present when hipd starts
    MaxAssigned, \* addresses assigned at once
    MaxQueue,    \* netlink messages queued at once
    MaxBatch,    \* messages returned by one read of the netlink socket
    WaitInterval,\* HIP_ADDRESS_CHANGE_WAIT_INTERVAL (defined outside src/)
    MaxRestarts  \* times hipd exits and starts again

ASSUME /\ V4 \subseteq Addr /\ Ignored \subseteq Addr
       /\ Alias \subseteq (Addr \ V4) \X V4
       /\ Ifaces \subseteq Nat \ {0} /\ WhiteList \subseteq Ifaces
       /\ 0 \in Junk
       /\ {MaxInit, MaxAssigned, MaxQueue, MaxBatch, WaitInterval, MaxRestarts} \subseteq Nat /\ MaxBatch >= 1

VARIABLES
    kernel,      \* the <<address, ifindex>> pairs assigned by the kernel
    nlq,         \* netlink address messages not yet read by hipd
    addresses,   \* the hash table: entries [addr, junk, if_index]
    address_count,
    address_change_time_counter,
    restarts     \* times hipd has restarted

vars == <<kernel, nlq, addresses, address_count, address_change_time_counter, restarts>>

Entry == [addr : Addr, junk : Junk, if_index : Ifaces]
NlMsg == [add : BOOLEAN, addr : Addr, if_index : Ifaces]

-----------------------------------------------------------------------------
(* The address cache (netdev.c)                                            *)

\* netdev_is_in_white_list, with the caller's "count > 0" test.
netdev_is_in_white_list(i) == WhiteList = {} \/ i \in WhiteList

\* filter_address: FA_ADD unless the address is one of the ignored kinds.
filter_address(a) == a \notin Ignored

\* The comparison in hip_exists_address_in_list of a cached address x with
\* a: for a cached IPv4-mapped x, hip_cast_sa_addr(addr) is read as an
\* in_addr whatever a's family, so an IPv6 a matches when its first 32 bits
\* equal x; for a cached IPv6 x only an IPv6 a is compared.
addr_match(x, a) ==
    IF x \in V4 THEN a = x \/ <<a, x>> \in Alias
                ELSE a \notin V4 /\ a = x

\* hip_exists_address_in_list: some cached entry on interface i matches a.
hip_exists_address_in_list(tbl, a, i) ==
    \E n \in tbl : n.if_index = i /\ addr_match(n.addr, a)

\* The hash-table key of the entry stored for a: an IPv4 address is
\* copied into a zeroed sockaddr_in6, an IPv6 one with its junk bytes.
Key(a, j) == <<a, IF a \in V4 THEN 0 ELSE j>>

\* Variant of hip_add_address_to_list that caches an address without
\* passing it through filter_address.
hip_add_address_to_list_unfiltered(st, a, i, j) ==
    IF hip_exists_address_in_list(st.tbl, a, i)
    THEN st
    ELSE [st EXCEPT !.tbl = {n \in @ : <<n.addr, n.junk>> # Key(a, j)}
                              \cup {[addr |-> a, junk |-> Key(a, j)[2], if_index |-> i]},
                    !.count = @ + 1]

\* hip_add_address_to_list: nothing if the address is cached on interface
\* i or is filtered out; otherwise list_add puts the entry into the hash
\* table, where it replaces an entry with the same key (lh_insert), and
\* address_count is incremented.
hip_add_address_to_list(st, a, i, j) ==
    IF hip_exists_address_in_list(st.tbl, a, i) \/ ~filter_address(a)
    THEN st
    ELSE [st EXCEPT !.tbl = {n \in @ : <<n.addr, n.junk>> # Key(a, j)}
                              \cup {[addr |-> a, junk |-> Key(a, j)[2], if_index |-> i]},
                    !.count = @ + 1]

\* Variant of delete_address_from_list whose loop does not reset "deleted"
\* for each entry: once one entry is deleted, every entry visited after it
\* decrements address_count (here the match is visited first).
delete_address_from_list_no_reset(st, a) ==
    LET gone == {n \in st.tbl : n.addr = a}
    IN  [st EXCEPT !.tbl = @ \ gone,
                   !.count = @ - (IF gone = {} THEN 0 ELSE Cardinality(st.tbl))]

\* delete_address_from_list with an address: every entry whose IPv6 (or
\* IPv4-mapped) address equals a is deleted, on any interface, and
\* address_count is decremented once per deleted entry.
delete_address_from_list(st, a) ==
    LET gone == {n \in st.tbl : n.addr = a}
    IN  [st EXCEPT !.tbl = @ \ gone, !.count = @ - Cardinality(gone)]

\* update_address_list: add an absent address or delete a present one.
update_address_list(st, a, isAdd, i, j) ==
    LET exists == hip_exists_address_in_list(st.tbl, a, i)
    IN  CASE isAdd /\ ~exists -> hip_add_address_to_list(st, a, i, j)
          [] ~isAdd /\ exists -> delete_address_from_list(st, a)
          [] OTHER            -> st

\* One RTM_NEWADDR or RTM_DELADDR message of hip_netdev_event's loop:
\* skipped ("continue") on an interface outside the white list; otherwise
\* looked up, discarded when it adds a cached or deletes an uncached
\* address, and else applied with update_address_list, which sets
\* address_change_time_counter (hip_wait_addr_changes_to_stabilize is 1).
\* A discarded message is a HIP_IFEL: the jump to out_err also leaves the
\* messages after it in the same read unprocessed.
RECURSIVE hip_netdev_event(_, _, _)
hip_netdev_event(st, batch, j) ==
    IF batch = <<>> THEN st
    ELSE LET m == Head(batch)
             exists == hip_exists_address_in_list(st.tbl, m.addr, m.if_index)
         IN  CASE ~netdev_is_in_white_list(m.if_index) ->
                    hip_netdev_event(st, Tail(batch), j)
               [] (exists /\ m.add) \/ (~exists /\ ~m.add) -> st
               [] OTHER ->
                    hip_netdev_event(
                        [update_address_list(st, m.addr, m.add, m.if_index, j)
                            EXCEPT !.counter = WaitInterval],
                        Tail(batch), j)

\* hip_netdev_init_addresses: for each getifaddrs entry, in the order
\* listed, skip it if hip_exists_address_in_list finds it on if_index,
\* which at that point still holds the previous entry's interface (0 for
\* the first), then take the entry's interface, skip it if not white
\* listed, and add it.  getifaddrs gives zero-filled sockaddrs.
RECURSIVE hip_netdev_init_addresses(_, _, _)
hip_netdev_init_addresses(st, ifaddrs, if_index) ==
    IF ifaddrs = <<>> THEN st
    ELSE LET a == Head(ifaddrs)[1]
             i == Head(ifaddrs)[2]
         IN  CASE hip_exists_address_in_list(st.tbl, a, if_index) ->
                    hip_netdev_init_addresses(st, Tail(ifaddrs), if_index)
               [] ~netdev_is_in_white_list(i) ->
                    hip_netdev_init_addresses(st, Tail(ifaddrs), i)
               [] OTHER ->
                    hip_netdev_init_addresses(hip_add_address_to_list(st, a, i, 0),
                                              Tail(ifaddrs), i)

-----------------------------------------------------------------------------

\* hipd's start-up: a fresh process fills an empty cache from getifaddrs,
\* which lists the kernel's addresses in the given order, and then opens
\* its netlink socket, so no message is queued yet.
FreshCache(order) ==
    hip_netdev_init_addresses([tbl |-> {}, count |-> 0, counter |-> -1], order, 0)

Init ==
    \E k \in {s \in SUBSET (Addr \X Ifaces) : Cardinality(s) <= MaxInit} :
    \E order \in SetToSeqs(k) :
        /\ kernel = k
        /\ nlq = <<>>
        /\ addresses = FreshCache(order).tbl
        /\ address_count = FreshCache(order).count
        /\ address_change_time_counter = FreshCache(order).counter
        /\ restarts = 0

\* hipd exits (hip_delete_all_addresses empties the cache) and a new
\* process starts: the messages queued on the old netlink socket are lost
\* with it, and the cache is filled again from the kernel's addresses.
Restart ==
    /\ restarts < MaxRestarts
    /\ \E order \in SetToSeqs(kernel) :
        /\ nlq' = <<>>
        /\ addresses' = FreshCache(order).tbl
        /\ address_count' = FreshCache(order).count
        /\ address_change_time_counter' = FreshCache(order).counter
    /\ restarts' = restarts + 1
    /\ UNCHANGED kernel

\* The kernel assigns address a to interface i, or removes it, and queues
\* the RTM_NEWADDR or RTM_DELADDR message.
KernelAddr(a, i, isAdd) ==
    /\ (<<a, i>> \in kernel) = ~isAdd
    /\ isAdd => Cardinality(kernel) < MaxAssigned
    /\ Len(nlq) < MaxQueue
    /\ kernel' = IF isAdd THEN kernel \cup {<<a, i>>} ELSE kernel \ {<<a, i>>}
    /\ nlq' = Append(nlq, [add |-> isAdd, addr |-> a, if_index |-> i])
    /\ UNCHANGED <<addresses, address_count, address_change_time_counter, restarts>>

\* hipd reads the first k queued messages in one read and runs
\* hip_netdev_event on them; the ss_addr bytes it never writes hold the
\* same junk for all of them.
NetdevEvent ==
    \E k \in 1..MaxBatch, j \in Junk :
        /\ k <= Len(nlq)
        /\ LET st == hip_netdev_event(
                         [tbl |-> addresses, count |-> address_count,
                          counter |-> address_change_time_counter],
                         SubSeq(nlq, 1, k), j)
           IN  /\ addresses' = st.tbl
               /\ address_count' = st.count
               /\ address_change_time_counter' = st.counter
        /\ nlq' = SubSeq(nlq, k + 1, Len(nlq))
        /\ UNCHANGED <<kernel, restarts>>

Next ==
    \/ \E a \in Addr, i \in Ifaces, isAdd \in BOOLEAN : KernelAddr(a, i, isAdd)
    \/ NetdevEvent
    \/ Restart

Spec == Init /\ [][Next]_vars

-----------------------------------------------------------------------------
(* Properties                                                              *)

TypeOK ==
    /\ kernel \subseteq Addr \X Ifaces
    /\ nlq \in Seq(NlMsg) /\ Len(nlq) <= MaxQueue
    /\ addresses \subseteq Entry
    /\ address_count \in Nat     \* "BUG: address_count < 0" otherwise
    /\ address_change_time_counter \in {-1, WaitInterval}
    /\ restarts \in 0..MaxRestarts

\* The addresses hipd would use or advertise: assigned by the kernel, on a
\* white-listed interface, and not filtered out.
Usable == {p \in kernel : netdev_is_in_white_list(p[2]) /\ filter_address(p[1])}

\* Once hipd has read every queued message, the cache holds no address that
\* the kernel has removed: every cached <<address, interface>> is assigned.
NoStaleAddress ==
    nlq = <<>> => \A n \in addresses : <<n.addr, n.if_index>> \in Usable

\* Once hipd has read every queued message, every usable address is cached
\* on some interface.
CacheComplete ==
    nlq = <<>> => \A p \in Usable : \E n \in addresses : n.addr = p[1]

\* address_count is the number of cached entries ("BUG: address_count < 0"
\* in delete_address_from_list is the code's own check of its lower end).
CountMatches == address_count = Cardinality(addresses)

=============================================================================
