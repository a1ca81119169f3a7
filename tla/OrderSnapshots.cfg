\* Two writers on one order: of WooCommerce, with parcel updates, or of ShopBase,
\* which may be deleted.
SPECIFICATION Spec
CONSTANTS
    Writers = {w1, w2}
    Platforms = {"woocommerce", "shopbase"}
    InputsOf <- MCInputsOf
    TrackingStatuses <- CarrierStatuses
    MaxVersions = 3
SYMMETRY Symmetry
INVARIANTS FreshestKept IInv
PROPERTIES StatusAdvances DeletedStays
CHECK_DEADLOCK FALSE
