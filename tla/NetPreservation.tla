-------------------------- MODULE NetPreservation --------------------------
(***************************************************************************)
(* A VM which keeps its static addresses: the configuration of its network *)
(* is parsed file by file, and each NIC is tied, by a udev rule on its MAC *)
(* address, to the name of the interface which has its MAC or an address.  *)
(***************************************************************************)
EXTENDS Integers, SequencesExt, FiniteSetsExt

CONSTANTS Nics, MaxFiles   \* the NICs of the VM; bound: configuration files

VARIABLES
  kind,            \* which preserver finds its files: NET_PRESERVERS
  files,           \* the files of the guest: sequences of stanzas
  parsed,          \* how many of them are parsed
  interface_info,  \* interface -> [mac_address, ip_addresses]
  net_ifaces_info, \* interface -> MAC: the udev rules
  stage            \* "parse", "match", "done" or "raised"

nvars == <<kind, files, parsed, interface_info, net_ifaces_info, stage>>

NoMac == 0
Empty == [i \in {} |-> 0]

\* The MAC address of NIC n is n, or -n where a file writes it in the other case; it
\* has two addresses of its own, and its gateway is another machine.
Addresses(n) == {<<n, 1>>, <<n, 2>>}
Gateway == <<0, 0>>

\* A stanza of an interface of a NIC, its own <<n, 1>> or the alias <<n, 2>>, with or
\* without the MAC address; and one which was left by a NIC that is there no more,
\* whose address may be another's now.
Stanzas ==
  UNION {[name : {<<n, 1>>, <<n, 2>>}, mac_address : {NoMac, n, -n},
          ip_addresses : {{}, {<<n, 1>>}, Addresses(n)}, gateway : BOOLEAN] \cup
         [name : {<<0, 1>>}, mac_address : {NoMac}, ip_addresses : {{}, {<<n, 1>>}},
          gateway : {FALSE}] : n \in Nics}

NetInit ==
  /\ kind \in {"netplan", "nmconnection", "ifcfg", "interfaces", "none"}
  /\ files \in UNION {[1..k -> UNION {[1..j -> Stanzas] :
                                j \in IF kind = "netplan" THEN 0..1 ELSE 1..1}] : k \in 1..MaxFiles}
  /\ parsed = 0 /\ interface_info = Empty /\ net_ifaces_info = Empty /\ stage = "parse"

\* get_net_preserver finds none: "Could not find any valid static network
\* configuration"
NoPreserver ==
  /\ stage = "parse" /\ kind = "none"
  /\ stage' = "raised"
  /\ UNCHANGED <<kind, files, parsed, interface_info, net_ifaces_info>>

Put(info, s) ==
  [i \in DOMAIN info \cup {s.name} |->
     IF i = s.name THEN [mac_address |-> s.mac_address, ip_addresses |-> s.ip_addresses]
     ELSE info[i]]

\* parse_network of netplan; after a first file without interfaces, its last
\* check refers to an interface there is none of.
ParseNetplan ==
  /\ stage = "parse" /\ kind = "netplan" /\ parsed < Len(files)
  /\ parsed' = parsed + 1
  /\ IF files[parsed + 1] = <<>> /\ interface_info = Empty
     THEN stage' = "raised" /\ UNCHANGED interface_info
     ELSE /\ interface_info' =
               FoldSeq(LAMBDA s, info : Put(info, s), interface_info, files[parsed + 1])
          /\ UNCHANGED stage
  /\ UNCHANGED <<kind, files, net_ifaces_info>>

\* parse_network of NetworkManager's files: address1=ip/prefix,gateway is split at the
\* comma, and the gateway taken for an address as well.
ParseNmconnection ==
  /\ stage = "parse" /\ kind = "nmconnection" /\ parsed < Len(files)
  /\ parsed' = parsed + 1
  /\ LET s == files[parsed + 1][1] IN
       interface_info' = Put(interface_info,
         [s EXCEPT !.ip_addresses =
            IF s.gateway /\ @ # {} THEN @ \cup {Gateway} ELSE @])
  /\ UNCHANGED <<kind, files, net_ifaces_info, stage>>

\* parse_network of the ifcfg files, which have one address at most
ParseIfcfg ==
  /\ stage = "parse" /\ kind = "ifcfg" /\ parsed < Len(files)
  /\ parsed' = parsed + 1
  /\ LET s == files[parsed + 1][1] IN
       interface_info' = Put(interface_info,
         [s EXCEPT !.ip_addresses = IF @ = {} THEN {} ELSE {CHOOSE a \in @ : TRUE}])
  /\ UNCHANGED <<kind, files, net_ifaces_info, stage>>

\* parse_network of /etc/network/interfaces decodes what is a string already.
ParseInterfaces ==
  /\ stage = "parse" /\ kind = "interfaces" /\ parsed < Len(files)
  /\ stage' = "raised"
  /\ UNCHANGED <<kind, files, parsed, interface_info, net_ifaces_info>>

Parsed ==
  /\ stage = "parse" /\ parsed = Len(files)
  /\ stage' = "match"
  /\ UNCHANGED <<kind, files, parsed, interface_info, net_ifaces_info>>

\* Mutant: a MAC which neither side has is the same.
MatchesAlsoNone(i, n) ==
  \/ interface_info[i].mac_address \in {n, NoMac}
  \/ interface_info[i].ip_addresses \cap Addresses(n) # {}

\* Interface i is taken for NIC n.
Matches(i, n) ==
  \/ interface_info[i].mac_address = n
  \/ interface_info[i].ip_addresses \cap Addresses(n) # {}

\* The files with stanzas of an interface.
FilesOf(i) == {k \in DOMAIN files : \E s \in Range(files[k]) : s.name = i}

\* The first of the interfaces, in the order in which the files name them.
First(ifaces) ==
  CHOOSE i \in ifaces : \A j \in ifaces : Min(FilesOf(i)) <= Min(FilesOf(j))

\* The rest of _setup_network_preservation: the first interface for each NIC, where a
\* later NIC overwrites an earlier one's, and _add_net_udev_rules.
MatchNics ==
  /\ stage = "match" /\ stage' = "done"
  /\ LET matching(n) == {i \in DOMAIN interface_info : Matches(i, n)}
         matched == {n \in Nics : matching(n) # {}}
         first == [n \in matched |-> First(matching(n))]
     IN  net_ifaces_info' = [i \in Range(first) |-> Max({n \in matched : first[n] = i})]
  /\ UNCHANGED <<kind, files, parsed, interface_info>>

NetOver == stage \in {"done", "raised"} /\ UNCHANGED nvars

NetNext ==
  \/ NoPreserver \/ ParseNetplan \/ ParseNmconnection \/ ParseIfcfg
  \/ ParseInterfaces \/ Parsed \/ MatchNics \/ NetOver

NetSpec == NetInit /\ [][NetNext]_nvars

\* An interface of NIC n which only one file configures, with the MAC address as the
\* platform writes it or with an address.
Described(i, n) ==
  /\ i[1] = n /\ Cardinality(FilesOf(i)) = 1
  /\ \E k \in FilesOf(i) : \E s \in Range(files[k]) :
       s.name = i /\ (s.mac_address = n \/ s.ip_addresses # {})

\* An interface which is there no more has left the address of NIC n in a file.
Stale(n) ==
  \E k \in DOMAIN files : \E s \in Range(files[k]) :
    s.name[1] = 0 /\ s.ip_addresses \cap Addresses(n) # {}

\* Whatever the order of the files, and however one overwrites what another said of an
\* interface: a NIC which the guest's configuration describes keeps a name, and no name
\* goes to a NIC it does not belong to.  Excepted is a NIC whose address an interface still has
\* which is there no more.
NicsKeepTheirNames ==
  stage = "done" =>
    \A n \in Nics : ~Stale(n) =>
      /\ \A i \in DOMAIN net_ifaces_info : net_ifaces_info[i] = n => i[1] = n
      /\ (\E i \in DOMAIN interface_info : Described(i, n)) =>
           \E i \in DOMAIN net_ifaces_info : net_ifaces_info[i] = n

\* "Found matching interface for NIC": when the VM goes on, an interface which is
\* configured with the MAC address of a NIC keeps its name on that NIC.
MacKeepsItsName ==
  stage = "done" =>
    \A i \in DOMAIN interface_info :
      interface_info[i].mac_address \in Nics => i \in DOMAIN net_ifaces_info
=============================================================================
