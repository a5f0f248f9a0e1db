SPECIFICATION Spec
CONSTANTS
    Persons = {ann, bob}
    Plans = {growth}
    MaxSessions = 3
    MaxCustomers = 2
    MaxDeployments = 2
INVARIANTS SubscribedByCheckout OneCustomer
PROPERTIES CheckoutActivates
CHECK_DEADLOCK FALSE
