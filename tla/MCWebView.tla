----------------------------- MODULE MCWebView ------------------------------
(* WebView on small sets: numbers cannot be model values. *)
EXTENDS WebView

MCPrices == {1, 2}

MCQuantities == {1, 2}

AnySign == {-1, 0, 1, 2}
=============================================================================
