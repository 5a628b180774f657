------------------------------- MODULE MCWebApi -------------------------------
(***************************************************************************)
(* A server, a manager, a sensor with a blank in its name, two interfaces, *)
(* one of them with a VLAN, an address each, a certificate and the network *)
(* configurations.                                                         *)
(***************************************************************************)
EXTENDS WebApi

SmallEntityOf ==
    [server |-> "Server", bmc |-> "BmcManager", sensor |-> "Sensors", eth0 |-> "Ethernet",
     eth1 |-> "Ethernet", vlan |-> "Ethernet", ip0 |-> "IP", ip1 |-> "IP",
     cert |-> "HTTPSCertificates", conf |-> "NetworkConfig", dhcp |-> "NetworkDHCPConfig"]

SmallInstances == DOMAIN SmallEntityOf

SmallName ==
    [i \in SmallInstances |-> CASE i = "sensor" -> <<"CPU", " ", "Temp">>
                                [] i = "server" -> <<"Big", " ", "Box">>
                                [] i = "vlan"   -> <<"eth0", ".", "7">>
                                [] i = "cert"   -> <<"1">>
                                [] OTHER        -> <<i>>]

SmallOwner   == [ip0 |-> "eth0", ip1 |-> "eth1"]
SmallRenamed == [server |-> <<"Box", "_", "2">>]

V1(p)  == << <<"redfish">>, <<"v1">> >> \o p
Mgr(p) == V1(<< <<"Managers">>, <<"bmc">> >> \o p)
Eth(p) == Mgr(<< <<"EthernetInterfaces">> >> \o p)
Box    == <<"Big", "_", "Box">>

SmallPaths ==
    {<< <<"redfish">> >>, V1(<<>>),
     V1(<< <<"Chassis">> >>), V1(<< <<"Chassis">>, Box >>),
     V1(<< <<"Chassis">>, Box, <<"Sensors">> >>),
     V1(<< <<"Chassis">>, Box, <<"Sensors">>, <<"CPU", "_", "Temp">> >>),
     V1(<< <<"CertificateService">>, <<"CertificateLocations">> >>),
     V1(<< <<"CertificateService">>, <<"CertificateLocations">>, <<"More">> >>),
     V1(<< <<"CertificateService">>, <<"Nothing">> >>),
     Mgr(<<>>), Mgr(<< <<"NetworkProtocol">> >>), Mgr(<< <<"NetworkProtocol">>, <<"HTTPS">> >>),
     Mgr(<< <<"NetworkProtocol">>, <<"Certificates">> >>),
     Mgr(<< <<"NetworkProtocol">>, <<"HTTPS">>, <<"Certificates">> >>),
     Mgr(<< <<"NetworkProtocol">>, <<"HTTPS">>, <<"Certificates">>, <<"1">> >>),
     Mgr(<< <<"NetworkProtocol">>, <<"HTTPS">>, <<"Certificates">>, <<"1">>, <<"More">> >>),
     Eth(<<>>), Eth(<< <<"eth0">> >>), Eth(<< <<"eth0", ".", "7">> >>),
     Eth(<< <<"eth0">>, <<"VLANs">> >>), Eth(<< <<"eth1">>, <<"VLANs">> >>),
     Eth(<< <<"eth0">>, <<"VLANs">>, <<"eth0", ".", "7">> >>),
     Eth(<< <<"eth0">>, <<"VLANs">>, <<"eth0", ".", "9">> >>)}

SmallQueries ==
    {<< <<"enter", "Server">>, <<"scalar", "Name">>, <<"leave", "Server">> >>,
     << <<"enter", "Ethernet">>, <<"scalar", "Name">>, <<"enter", "IP">>, <<"scalar", "Name">>,
        <<"leave", "IP">>, <<"leave", "Ethernet">> >>,
     << <<"enter", "Ethernet">>, <<"enter", "IP">>, <<"scalar", "Name">>, <<"leave", "IP">>,
        <<"scalar", "Bogus">>, <<"leave", "Ethernet">> >>,
     << <<"enter", "Server">>, <<"enter", "IP">>, <<"leave", "IP">>, <<"leave", "Server">> >>,
     << <<"enter", "Nothing">>, <<"leave", "Nothing">> >>,
     << <<"scalar", "Name">> >>,
     << <<"enter", "Sensors">>, <<"scalar", "Name">>, <<"leave", "Sensors">>,
        <<"enter", "BmcManager">>, <<"enter", "Ethernet">>, <<"leave", "Ethernet">>,
        <<"leave", "BmcManager">> >>}
=============================================================================
