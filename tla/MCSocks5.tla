------------------------------ MODULE MCSocks5 ------------------------------
(* TLC instance of Socks5.                                                  *)
EXTENDS Socks5

Addresses == {<<10, 0, 0, 1>>, V4InV6 \o <<10, 0, 0, 1>>,
              <<32, 1, 13, 184, 0, 0, 0, 0, 0, 0, 0, 0, 0, 0, 0, 1>>}
Data == {<<>>, <<"x">>, <<"x", "y">>}
=============================================================================
