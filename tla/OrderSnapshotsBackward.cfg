\* A parcel update on an order that has come further.
SPECIFICATION Spec
CONSTANTS
    Writers = {w1}
    Platforms = {"woocommerce"}
    InputsOf <- MCInputsOf
    TrackingStatuses <- CarrierStatuses
    MaxVersions = 1
PROPERTIES ProgressNeverBackward
CHECK_DEADLOCK FALSE
