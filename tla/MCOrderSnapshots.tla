--------------------------- MODULE MCOrderSnapshots ---------------------------
(* Instances of OrderSnapshots for TLC.                                    *)
EXTENDS OrderSnapshots, TLC

Input(status, payment, fulfillment) ==
    [status |-> status, payment |-> payment, fulfillment |-> fulfillment]

(* What the WooCommerce plugin sends along the life of an order.           *)
WooInputs ==
    {Input("processing", "paid", ""), Input("completed", "paid", "fulfilled"),
     Input("refunded", "refunded", "")}

(* What MapOrderToInput makes of ShopBase orders.                          *)
ShopBaseInputs ==
    {Input("pending", "pending", "unfulfilled"),
     Input("processing", "paid", "unfulfilled"),
     Input("processing", "paid", "fulfilled"),
     Input("pending", "partially_refunded", "unfulfilled"),
     Input("cancelled", "paid", "unfulfilled")}

MCInputsOf ==
    [p \in {"woocommerce", "shopbase"} |->
        IF p = "woocommerce" THEN WooInputs ELSE ShopBaseInputs]

CarrierStatuses == {"in_transit", "failed_attempt", "expired"}

(* Writers are interchangeable.                                            *)
Symmetry == Permutations(Writers)

=============================================================================
