------------------------------- MODULE Ports -------------------------------
(***************************************************************************)
(* The local ports of the program (src/config.go, src/manager.go): one     *)
(* SOCKS and one control port per country for Tor, counted up from         *)
(* base_socks_port, and one country proxy port per possible two-letter     *)
(* code, counted up from country_proxy_base_port.                          *)
(***************************************************************************)
EXTENDS Integers

Letter == 0..25

\* A country code, as the positions of its two letters in the alphabet.
Code == Letter \X Letter

countryPort(base, code) == base + code[1] * 26 + code[2]

\* NewManager and ensureCountry number the countries in the order they are met;
\* no two have the same code, so there are at most 676.
socksPort(base, index) == base + index
controlPort(base, index) == base + 3000 + index
Index == 0..675

rangesOverlap(firstStart, firstEnd, secondStart, secondEnd) ==
    firstStart <= secondEnd /\ secondStart <= firstEnd

\* validate, as far as ports go.
ValidPorts(socks, proxy) ==
    /\ socks >= 1024 /\ socks + 3675 < 65535
    /\ proxy >= 1024 /\ proxy + 675 < 65535
    /\ ~rangesOverlap(socks, socks + 675, proxy, proxy + 675)
    /\ ~rangesOverlap(socks + 3000, socks + 3675, proxy, proxy + 675)

----------------------------------------------------------------------------
CountriesApart(proxy) ==
    \A c, d \in Code : countryPort(proxy, c) = countryPort(proxy, d) => c = d

TorsApart(socks) ==
    \A i, j \in Index : socksPort(socks, i) # controlPort(socks, j)

ProxyAndTorApart(socks, proxy) ==
    \A c \in Code, i \in Index :
        countryPort(proxy, c) \notin {socksPort(socks, i), controlPort(socks, i)}

Exists(port) == 1024 <= port /\ port <= 65535

PortsExist(socks, proxy) ==
    /\ \A c \in Code : Exists(countryPort(proxy, c))
    /\ \A i \in Index : Exists(socksPort(socks, i)) /\ Exists(controlPort(socks, i))

(***************************************************************************)
(* In the layout of a configuration that validate accepts no two of the    *)
(* countries' listeners claim the same port: the proxy ports of two        *)
(* countries, the SOCKS and the control port of one, and a country proxy   *)
(* and a Tor process never meet, and every port is one that exists.  The   *)
(* ports of listen_address and proxy_address, and those replacements are   *)
(* given at run time (reserveLocalPort), are no part of the layout.        *)
(***************************************************************************)
PortsApart(socks, proxy) ==
    ValidPorts(socks, proxy) =>
        /\ CountriesApart(proxy)
        /\ TorsApart(socks)
        /\ ProxyAndTorApart(socks, proxy)
        /\ PortsExist(socks, proxy)
=============================================================================
